---- MODULE Spec2Model ----
(***************************************************************************)
(* A model of the equation solver of ruediste/nes: the character scanner   *)
(* and the recursive-descent grammar of src/src/parser.ts, and the         *)
(* evaluator and Newton solver of src/src/calculation.ts.                  *)
(*                                                                         *)
(* Texts are sequences of one-character strings.  Numbers are exact        *)
(* rationals <<n, d>> in lowest terms with d > 0; the program computes in  *)
(* IEEE doubles, so the model is exact where the program rounds.           *)
(***************************************************************************)
EXTENDS Integers, Sequences, FiniteSets, TLC

\* ------------------------------------------------------------------------
\* Bounds of the model
\* ------------------------------------------------------------------------

\* largest initial value of an unknown drawn for the generated projects
MaxInitValue == 2

\* largest value of the locked factor drawn for the generated projects
MaxLockedValue == 3

\* largest number of arguments of a generated call
MaxArgs == 2

\* largest run of blanks between two tokens of a generated equation
MaxGap == 1

\* ------------------------------------------------------------------------
\* Rational arithmetic (the JavaScript numbers of the program)
\* ------------------------------------------------------------------------

Abs(x) == IF x < 0 THEN -x ELSE x

RECURSIVE Gcd(_, _)
Gcd(a, b) == IF b = 0 THEN a ELSE Gcd(b, a % b)

\* <<0, 0>> stands for the non-numbers (NaN, Infinity) a division by zero gives
NaN == <<0, 0>>

IsNum(r) == r[2] # 0

Rat(n, d) ==
  IF d = 0 THEN NaN
  ELSE LET g == Gcd(Abs(n), Abs(d))
           s == IF d < 0 THEN -1 ELSE 1
       IN <<(s * n) \div g, (s * d) \div g>>

Zero == <<0, 1>>
One == <<1, 1>>
FromInt(i) == <<i, 1>>

\* every operation takes its operands as values: x and y are a and b, evaluated once
RAdd(a, b) ==
  CHOOSE r \in {IF IsNum(x) /\ IsNum(y)
                THEN Rat(x[1] * y[2] + y[1] * x[2], x[2] * y[2]) ELSE NaN :
                x \in {a}, y \in {b}} : TRUE

RNeg(a) == CHOOSE r \in {IF IsNum(x) THEN <<-x[1], x[2]>> ELSE NaN : x \in {a}} : TRUE

RSub(a, b) == RAdd(a, RNeg(b))

RMul(a, b) ==
  CHOOSE r \in {IF IsNum(x) /\ IsNum(y)
                THEN IF x[1] = 0 \/ y[1] = 0 THEN Zero ELSE Rat(x[1] * y[1], x[2] * y[2])
                ELSE NaN :
                x \in {a}, y \in {b}} : TRUE

RDiv(a, b) ==
  CHOOSE r \in {IF IsNum(x) /\ IsNum(y) THEN Rat(x[1] * y[2], x[2] * y[1]) ELSE NaN :
                x \in {a}, y \in {b}} : TRUE

\* a < b; every comparison with a non-number is false, as in JavaScript
RLt(a, b) == IsNum(a) /\ IsNum(b) /\ a[1] * b[2] < b[1] * a[2]

\* r < 10^(-k) for r >= 0, computed without forming 10^k
RECURSIVE LtPow10(_, _, _)
LtPow10(n, d, k) ==
  IF k = 0 THEN n < d ELSE LtPow10(n, (d + 9) \div 10, k - 1)

\* ------------------------------------------------------------------------
\* Characters and character predicates (parser.ts isCharacterMatching)
\* ------------------------------------------------------------------------

Lower == {"a", "b", "c", "d", "e", "f", "g", "h", "i", "j", "k", "l", "m",
          "n", "o", "p", "q", "r", "s", "t", "u", "v", "w", "x", "y", "z"}
Upper == {"A", "B", "C", "D", "E", "F", "G", "H", "I", "J", "K", "L", "M",
          "N", "O", "P", "Q", "R", "S", "T", "U", "V", "W", "X", "Y", "Z"}
Digits == {"0", "1", "2", "3", "4", "5", "6", "7", "8", "9"}

\* a predicate is a character set, negated for a class that starts with ^
Pred(set) == [set |-> set, neg |-> FALSE]
NotPred(set) == [set |-> set, neg |-> TRUE]

isCharacterMatching(char, predicate) == (char \in predicate.set) # predicate.neg

PredSymbolStart == Pred(Lower \cup Upper \cup {"_"})
PredSymbolRest == Pred(Lower \cup Upper \cup Digits \cup {"_"})
PredUnit == Pred(Lower \cup Upper \cup Digits)
isDigit == Pred(Digits)
PredNotNewline == NotPred({"\n"})
PredBlank == Pred({" ", "\t", "\n"})

\* 10^k as a rational, k possibly negative
RECURSIVE Pow10(_)
Pow10(k) ==
  IF k = 0 THEN One
  ELSE IF k > 0 THEN RMul(<<10, 1>>, Pow10(k - 1))
  ELSE RMul(<<1, 10>>, Pow10(k + 1))

\* App.tsx siPrefixes: every factor is a power of ten, held by its exponent
siPrefixes ==
  << [prefix |-> "T", exp |-> 12],
     [prefix |-> "G", exp |-> 9],
     [prefix |-> "M", exp |-> 6],
     [prefix |-> "k", exp |-> 3],
     [prefix |-> "", exp |-> 0],
     [prefix |-> "%", exp |-> -2],
     [prefix |-> "m", exp |-> -3],
     [prefix |-> "u", exp |-> -6],
     [prefix |-> "n", exp |-> -9],
     [prefix |-> "p", exp |-> -12] >>

PredSiPrefix == Pred({siPrefixes[i].prefix : i \in 1..Len(siPrefixes)} \ {""})

siPrefixMap(prefix) ==
  LET i == CHOOSE j \in 1..Len(siPrefixes) : siPrefixes[j].prefix = prefix
  IN Pow10(siPrefixes[i].exp)

\* ------------------------------------------------------------------------
\* Parser (parser.ts): the scanner
\* ------------------------------------------------------------------------

\* the fields of Parser after construction
ParserInit == [inputPos |-> 0, lineStartPos |-> 0, lineNr |-> 1, linePos |-> 1]

\* pos with the column where the offset belongs
posColumnForOffset(st) ==
  [pos |-> st.linePos, lineNr |-> st.lineNr, linePos |-> st.linePos,
   lineStartPos |-> st.lineStartPos]

\* Parser.pos: the InputPos of the current position
pos(st) ==
  [pos |-> st.inputPos, lineNr |-> st.lineNr, linePos |-> st.linePos,
   lineStartPos |-> st.lineStartPos]

isEOI(inp, st) == st.inputPos >= Len(inp)

peek(inp, st) == inp[st.inputPos + 1]

\* Parser.error: a CompileError at the current position
error(st, message) == [pos |-> pos(st), errorMessage |-> message]

NoError == [pos |-> pos(ParserInit), errorMessage |-> ""]

\* the two ways a parsing function ends: a value, or a thrown CompileError;
\* both leave the parser at st
Ok(st, val) == [ok |-> TRUE, st |-> st, val |-> val, err |-> NoError]
Fail(st, err) == [ok |-> FALSE, st |-> st, val |-> "undefined", err |-> err]

\* no predicate given: every character is accepted
NoPredicate == NotPred({})

\* the fields after this.input[this.inputPos++] and the line bookkeeping
advance(inp, st) ==
  IF inp[st.inputPos + 1] = "\n"
  THEN [inputPos |-> st.inputPos + 1, lineNr |-> st.lineNr + 1,
        linePos |-> 1, lineStartPos |-> st.inputPos + 1]
  ELSE [st EXCEPT !.inputPos = st.inputPos + 1, !.linePos = st.linePos + 1]

\* the character is taken before the predicate is tested
consume(inp, st, predicate) ==
  IF isEOI(inp, st) THEN Fail(st, error(st, "End of input reached"))
  ELSE IF ~isCharacterMatching(inp[st.inputPos + 1], predicate)
  THEN Fail(advance(inp, st), error(advance(inp, st), "Expected"))
  ELSE Ok(advance(inp, st), inp[st.inputPos + 1])

mark(st) == [pos |-> st.inputPos, lineNr |-> st.lineNr, linePos |-> st.linePos]

\* a reset of the line number and the column only
resetKeepingOffset(st, m) == [st EXCEPT !.lineNr = m.lineNr, !.linePos = m.linePos]

\* reset leaves lineStartPos as it is
reset(st, m) ==
  [st EXCEPT !.inputPos = m.pos, !.lineNr = m.lineNr, !.linePos = m.linePos]

RECURSIVE consumeStringFrom(_, _, _, _, _)
consumeStringFrom(inp, st, expected, i, m) ==
  IF i > Len(expected) THEN Ok(st, "undefined")
  ELSE IF isEOI(inp, st) THEN consume(inp, st, NoPredicate)
  ELSE IF inp[st.inputPos + 1] # expected[i]
  THEN Fail(reset(advance(inp, st), m),
            error(reset(advance(inp, st), m), "Expected string"))
  ELSE consumeStringFrom(inp, advance(inp, st), expected, i + 1, m)

consumeString(inp, st, expected) == consumeStringFrom(inp, st, expected, 1, mark(st))

RECURSIVE consumeZeroOrMoreFrom(_, _, _, _)
consumeZeroOrMoreFrom(inp, st, predicate, result) ==
  IF ~isEOI(inp, st) /\ isCharacterMatching(peek(inp, st), predicate)
  THEN consumeZeroOrMoreFrom(inp, advance(inp, st), predicate,
                             Append(result, peek(inp, st)))
  ELSE Ok(st, result)

consumeZeroOrMore(inp, st, predicate) == consumeZeroOrMoreFrom(inp, st, predicate, <<>>)

\* this.consume(predicate) + this.consumeZeroOrMore(predicate)
consumeOneOrMore(inp, st, predicate) ==
  IF isEOI(inp, st) \/ ~isCharacterMatching(peek(inp, st), predicate)
  THEN consume(inp, st, predicate)
  ELSE consumeZeroOrMoreFrom(inp, advance(inp, st), predicate, <<peek(inp, st)>>)

\* Parser.optional around a function that ended as r: its value as <<value>>,
\* or undefined as <<>> at the reset position
optional(r, m) == IF r.ok THEN Ok(r.st, <<r.val>>) ELSE Ok(reset(r.st, m), <<>>)

\* the error of the last choice
furthestErrorLast(best, e) == e

\* Parser.choice keeps the first error with the greatest offset
furthestError(best, e) ==
  IF best.errorMessage = "" \/ best.pos.pos < e.pos.pos THEN e ELSE best

\* ------------------------------------------------------------------------
\* Grammar (parser.ts).  A method of Grammar is the tree of the calls it
\* makes; run, below, executes such a tree on the scanner.
\* ------------------------------------------------------------------------

\* this.parser.consume(predicate) and its relatives
Consume(predicate) == [type |-> "consume", predicate |-> predicate]
ConsumeString(expected) == [type |-> "consumeString", expected |-> expected]
ConsumeZeroOrMore(predicate) == [type |-> "consumeZeroOrMore", predicate |-> predicate]
ConsumeOneOrMore(predicate) == [type |-> "consumeOneOrMore", predicate |-> predicate]
\* this.parser.pos
GetPos == [type |-> "pos"]
\* this.parser.zeroOrMore(f), oneOrMore(f), optional(f), choice(...choices)
ZeroOrMore(f) == [type |-> "zeroOrMore", body |-> f]
OneOrMore(f) == [type |-> "oneOrMore", body |-> f]
Optional(f) == [type |-> "optional", body |-> f]
Choice(choices) == [type |-> "choice", choices |-> choices]
\* statements in order; the value is the tuple of their values
Do(statements) == [type |-> "do", statements |-> statements]
\* the value a function returns, made of the values of its statements
Return(kind, f) == [type |-> "return", kind |-> kind, body |-> f]
\* this.name()
Method(name) == [type |-> "method", name |-> name]
\* if (!this.parser.isEOI) f
UnlessEOI(f) == [type |-> "unlessEOI", body |-> f]
\* try { f } finally { g }
TryFinally(f, g) == [type |-> "tryFinally", body |-> f, final |-> g]
\* try { while (true) f } catch, then the test for the end of the input
WhileTrueToEOI(f) == [type |-> "whileTrueToEOI", body |-> f]

whitespace ==
  OneOrMore(Choice(<<
    Do(<<ConsumeString(<<"/", "/">>),
         ZeroOrMore(Consume(PredNotNewline)),
         UnlessEOI(Consume(Pred({"\n"})))>>),
    Do(<<ConsumeString(<<"\r">>), ConsumeString(<<"\n">>)>>),
    Consume(PredBlank)>>))

whitespaceOpt == Optional(Method("whitespace"))

symbol ==
  TryFinally(
    Return("symbol",
      Do(<<GetPos, Consume(PredSymbolStart), ConsumeZeroOrMore(PredSymbolRest)>>)),
    Method("whitespaceOpt"))

\* number with the end of the literal taken after the blanks that follow it
numberEndAfterBlanks ==
  Return("number",
    Do(<<GetPos,
         Optional(Consume(Pred({"-"}))),
         ConsumeOneOrMore(isDigit),
         Optional(Do(<<Consume(Pred({"."})), ConsumeZeroOrMore(isDigit)>>)),
         Return("last", Do(<<Method("whitespaceOpt"), GetPos>>)),
         Method("whitespaceOpt")>>))

number ==
  Return("number",
    Do(<<GetPos,
         Optional(Consume(Pred({"-"}))),
         ConsumeOneOrMore(isDigit),
         Optional(Do(<<Consume(Pred({"."})), ConsumeZeroOrMore(isDigit)>>)),
         GetPos,
         Method("whitespaceOpt")>>))

value ==
  Choice(<<
    Return("paren",
      Do(<<Consume(Pred({"("})), Method("whitespaceOpt"), Method("expression"),
           Consume(Pred({")"})), Method("whitespaceOpt")>>)),
    Return("numberValue", Method("numericValue")),
    Method("symbol")>>)

binaryOp(operators, nested) ==
  Return("binaryOp",
    Do(<<nested,
         ZeroOrMore(Return("operation",
           Do(<<Consume(operators), Method("whitespaceOpt"), nested>>)))>>))

product == binaryOp(Pred({"*", "/"}), Method("value"))

sum == binaryOp(Pred({"+", "-"}), Method("product"))

expression == Method("sum")

equationTerminal ==
  Return("equationTerminal",
    Do(<<Method("expression"), Consume(Pred({"="})), Method("whitespaceOpt"),
         Method("expression"), Consume(Pred({";"})), Method("whitespaceOpt")>>))

equation == Choice(<<Method("equationTerminal"), Method("call")>>)

definition ==
  Return("definition",
    Do(<<ConsumeString(<<"d", "e", "f">>),
         Method("whitespace"),
         Method("symbol"),
         Consume(Pred({"("})),
         Method("whitespaceOpt"),
         Optional(Return("list",
           Do(<<Method("symbol"),
                ZeroOrMore(Return("last",
                  Do(<<Consume(Pred({","})), Method("whitespaceOpt"),
                       Method("symbol")>>)))>>))),
         Consume(Pred({")"})),
         Method("whitespaceOpt"),
         Consume(Pred({"{"})),
         Method("whitespaceOpt"),
         ZeroOrMore(Method("equation")),
         Consume(Pred({"}"})),
         Method("whitespaceOpt")>>))

callArgument ==
  Return("callArgument",
    Do(<<Method("symbol"), Consume(Pred({":"})), Method("whitespaceOpt"),
         Method("expression")>>))

call ==
  Return("call",
    Do(<<Method("symbol"),
         Consume(Pred({"("})),
         Method("whitespaceOpt"),
         Optional(Return("list",
           Do(<<Method("callArgument"),
                ZeroOrMore(Return("last",
                  Do(<<Consume(Pred({","})), Method("whitespaceOpt"),
                       Method("callArgument")>>)))>>))),
         Consume(Pred({")"})),
         Method("whitespaceOpt"),
         Consume(Pred({";"})),
         Method("whitespaceOpt")>>))

numericValue ==
  Return("numericValue",
    Do(<<Method("number"),
         Method("whitespaceOpt"),
         Optional(Return("last",
           Do(<<Consume(Pred({":"})), Method("whitespaceOpt"), Method("number")>>))),
         Optional(Consume(PredSiPrefix)),
         ZeroOrMore(Consume(PredUnit)),
         Method("whitespaceOpt")>>))

variableDeclaration ==
  Return("variableDeclaration",
    Do(<<Choice(<<Return("false", ConsumeString(<<"v", "a", "r">>)),
                  Return("true", ConsumeString(<<"l", "v", "a", "r">>))>>),
         Method("whitespace"),
         Method("symbol"),
         ConsumeString(<<"=">>),
         Method("whitespaceOpt"),
         Method("numericValue"),
         ConsumeString(<<";">>),
         Method("whitespaceOpt")>>))

system ==
  Return("system",
    Do(<<Method("whitespaceOpt"),
         WhileTrueToEOI(Choice(<<
           Return("variables", Method("variableDeclaration")),
           Return("definitions", Method("definition")),
           Return("equations", Method("equation"))>>))>>))

\* the method of a name
Grammar(name) ==
  CASE name = "whitespace" -> whitespace
    [] name = "whitespaceOpt" -> whitespaceOpt
    [] name = "symbol" -> symbol
    [] name = "number" -> number
    [] name = "value" -> value
    [] name = "product" -> product
    [] name = "sum" -> sum
    [] name = "expression" -> expression
    [] name = "equationTerminal" -> equationTerminal
    [] name = "equation" -> equation
    [] name = "definition" -> definition
    [] name = "callArgument" -> callArgument
    [] name = "call" -> call
    [] name = "numericValue" -> numericValue
    [] name = "variableDeclaration" -> variableDeclaration
    [] name = "system" -> system

\* ------------------------------------------------------------------------
\* The values the methods of Grammar return
\* ------------------------------------------------------------------------

DigitChars == <<"0", "1", "2", "3", "4", "5", "6", "7", "8", "9">>

DigitValue(c) == (CHOOSE i \in 1..10 : DigitChars[i] = c) - 1

\* the integer a run of digits from text[i] on stands for, the power of ten
\* of its length, and the index after it: <<value, 10^length, index>>
RECURSIVE digitsValue(_, _, _, _)
digitsValue(text, i, acc, scale) ==
  IF i > Len(text) \/ text[i] \notin Digits THEN <<acc, scale, i>>
  ELSE digitsValue(text, i + 1, acc * 10 + DigitValue(text[i]), scale * 10)

\* the fraction after the integer digits int, if a "." follows them
fractionValue(text, int) ==
  IF int[3] <= Len(text) /\ text[int[3]] = "."
  THEN digitsValue(text, int[3] + 1, 0, 1)
  ELSE <<0, 1, 0>>

magnitudeValue(int, frac) == RAdd(<<int[1], 1>>, Rat(frac[1], frac[2]))

\* parseFloat of a text made of an optional sign, digits and an optional
\* fraction
parseFloat(text) ==
  IF Len(text) > 0 /\ text[1] = "-"
  THEN RNeg(magnitudeValue(digitsValue(text, 2, 0, 1),
                           fractionValue(text, digitsValue(text, 2, 0, 1))))
  ELSE magnitudeValue(digitsValue(text, 1, 0, 1),
                      fractionValue(text, digitsValue(text, 1, 0, 1)))

\* the operations grouped from the right instead
RECURSIVE binaryOpResultFromRight(_, _, _)
binaryOpResultFromRight(result, operations, i) ==
  IF i > Len(operations) THEN result
  ELSE [type |-> "binaryOp", left |-> result,
        right |-> binaryOpResultFromRight(operations[i].nested, operations, i + 1),
        operator |-> operations[i].op]

\* the loop of binaryOp over the operations
RECURSIVE binaryOpResult(_, _, _)
binaryOpResult(result, operations, i) ==
  IF i > Len(operations) THEN result
  ELSE binaryOpResult([type |-> "binaryOp", left |-> result,
                       right |-> operations[i].nested,
                       operator |-> operations[i].op],
                      operations, i + 1)

\* the items the loop of system pushed to one of the lists of the AstSystem
RECURSIVE pushedTo(_, _, _)
pushedTo(list, pushes, i) ==
  IF i > Len(pushes) THEN <<>>
  ELSE (IF pushes[i].list = list THEN <<pushes[i].item>> ELSE <<>>)
       \o pushedTo(list, pushes, i + 1)

EmptySystem == [equations |-> <<>>, definitions |-> <<>>, variables |-> <<>>]

\* the value of a function from the values v of its statements
returnValue(kind, v) ==
  CASE kind = "symbol" ->
         [type |-> "symbol", pos |-> v[1], name |-> <<v[2]>> \o v[3]]
    [] kind = "number" ->
         \* result holds the digits; the sign it held is overwritten
         [value |-> parseFloat(v[3] \o (IF Len(v[4]) = 0 THEN <<>>
                                        ELSE <<".">> \o v[4][1][2])),
          start |-> v[1],
          length |-> v[5].pos - v[1].pos]
    [] kind = "paren" -> [type |-> "paren", expression |-> v[3]]
    [] kind = "numberValue" -> [type |-> "number", value |-> v]
    [] kind = "operation" -> [op |-> v[1], nested |-> v[3]]
    [] kind = "binaryOp" -> binaryOpResult(v[1], v[2], 1)
    [] kind = "equationTerminal" ->
         [type |-> "equationTerminal", left |-> v[1], right |-> v[4]]
    [] kind = "list" -> <<v[1]>> \o v[2]
    [] kind = "last" -> v[Len(v)]
    [] kind = "definition" ->
         [name |-> v[3].name,
          parameters |-> IF Len(v[6]) = 0 THEN <<>>
                         ELSE [i \in 1..Len(v[6][1]) |-> v[6][1][i].name],
          equations |-> v[11]]
    [] kind = "callArgument" -> [parameterName |-> v[1], argumentValue |-> v[4]]
    [] kind = "call" ->
         [type |-> "call", name |-> v[1],
          arguments |-> IF Len(v[4]) = 0 THEN <<>> ELSE v[4][1]]
    [] kind = "numericValue" ->
         [real |-> v[1].value,
          realStart |-> v[1].start,
          realLength |-> v[1].length,
          siPrefix |-> IF Len(v[4]) = 0 THEN "" ELSE v[4][1],
          hasImag |-> Len(v[3]) > 0,
          imag |-> IF Len(v[3]) > 0 THEN v[3][1].value ELSE Zero,
          imagStart |-> IF Len(v[3]) > 0 THEN v[3][1].start ELSE pos(ParserInit),
          imagLength |-> IF Len(v[3]) > 0 THEN v[3][1].length ELSE 0]
    [] kind = "false" -> FALSE
    [] kind = "true" -> TRUE
    [] kind = "variableDeclaration" -> [name |-> v[3], value |-> v[6], locked |-> v[1]]
    [] kind \in {"variables", "definitions", "equations"} -> [list |-> kind, item |-> v]
    [] kind = "system" ->
         [equations |-> pushedTo("equations", v[2], 1),
          definitions |-> pushedTo("definitions", v[2], 1),
          variables |-> pushedTo("variables", v[2], 1)]

\* ------------------------------------------------------------------------
\* Running a method of Grammar on the scanner
\* ------------------------------------------------------------------------

RECURSIVE run(_, _, _)
RECURSIVE statements(_, _, _, _, _)
RECURSIVE zeroOrMore(_, _, _, _)
RECURSIVE choice(_, _, _, _, _)
RECURSIVE whileTrueToEOI(_, _, _, _)

\* the statements from the i-th on; a throw ends them
statements(fs, i, inp, st, vals) ==
  IF i > Len(fs) THEN Ok(st, vals)
  ELSE LET r == run(fs[i], inp, st)
       IN IF r.ok THEN statements(fs, i + 1, inp, r.st, Append(vals, r.val)) ELSE r

\* Parser.zeroOrMore: a throw of f resets to the mark of its round
zeroOrMore(f, inp, st, result) ==
  LET r == run(f, inp, st)
  IN IF r.ok THEN zeroOrMore(f, inp, r.st, Append(result, r.val))
     ELSE Ok(reset(r.st, mark(st)), result)

\* Parser.choice from the i-th choice on; err is the error kept so far
choice(choices, i, inp, st, err) ==
  IF i > Len(choices)
  THEN Fail(st, IF err.errorMessage = "" THEN error(st, "No choices matched") ELSE err)
  ELSE LET r == run(choices[i], inp, st)
       IN IF r.ok THEN r
          ELSE choice(choices, i + 1, inp, reset(r.st, mark(st)),
                      furthestError(err, r.err))

\* the loop of system: it ends when f throws, and the error is thrown on
\* unless the input is at its end
whileTrueToEOI(f, inp, st, result) ==
  LET r == run(f, inp, st)
  IN IF r.ok THEN whileTrueToEOI(f, inp, r.st, Append(result, r.val))
     ELSE IF ~isEOI(inp, r.st) THEN Fail(r.st, r.err)
     ELSE Ok(r.st, result)

run(f, inp, st) ==
  CASE f.type = "consume" -> consume(inp, st, f.predicate)
    [] f.type = "consumeString" -> consumeString(inp, st, f.expected)
    [] f.type = "consumeZeroOrMore" -> consumeZeroOrMore(inp, st, f.predicate)
    [] f.type = "consumeOneOrMore" -> consumeOneOrMore(inp, st, f.predicate)
    [] f.type = "pos" -> Ok(st, pos(st))
    [] f.type = "zeroOrMore" -> zeroOrMore(f.body, inp, st, <<>>)
    [] f.type = "oneOrMore" ->
         LET first == run(f.body, inp, st)
         IN IF first.ok THEN zeroOrMore(f.body, inp, first.st, <<first.val>>)
            ELSE first
    [] f.type = "optional" -> optional(run(f.body, inp, st), mark(st))
    [] f.type = "choice" -> choice(f.choices, 1, inp, st, NoError)
    [] f.type = "do" -> statements(f.statements, 1, inp, st, <<>>)
    [] f.type = "return" ->
         LET r == run(f.body, inp, st)
         IN IF r.ok THEN Ok(r.st, returnValue(f.kind, r.val)) ELSE r
    [] f.type = "method" -> run(Grammar(f.name), inp, st)
    [] f.type = "unlessEOI" ->
         IF isEOI(inp, st) THEN Ok(st, "undefined") ELSE run(f.body, inp, st)
    [] f.type = "tryFinally" ->
         LET r == run(f.body, inp, st)
             final == run(f.final, inp, r.st)
         IN IF final.ok THEN [r EXCEPT !.st = final.st] ELSE final
    [] f.type = "whileTrueToEOI" -> whileTrueToEOI(f.body, inp, st, <<>>)

\* new Grammar(input).system()
parseSystem(inp) == run(system, inp, ParserInit)

\* ------------------------------------------------------------------------
\* Dual numbers (calculation.ts DualReal, DualComplex)
\* ------------------------------------------------------------------------

\* createRange(n, () => 0) and createRange(n, (e) => (e == idx ? 1 : 0))
zeroRange(n) == [e \in 1..n |-> Zero]
oneHotRange(n, idx) == [e \in 1..n |-> IF e - 1 = idx THEN One ELSE Zero]

DualReal(v, d) == [value |-> v, derivatives |-> d]
DualComplex(re, im) == [real |-> re, imag |-> im]

\* the operands are taken as values: x and y are a and b, evaluated once
realMul(a, b) ==
  CHOOSE r \in
    {DualReal(RMul(x.value, y.value),
              [i \in 1..Len(x.derivatives) |->
                 RAdd(RMul(x.derivatives[i], y.value), RMul(y.derivatives[i], x.value))]) :
       x \in {a}, y \in {b}} : TRUE

realInverse(a) ==
  CHOOSE r \in
    {DualReal(RDiv(One, x.value),
              [i \in 1..Len(x.derivatives) |->
                 RMul(x.derivatives[i], RDiv(<<-1, 1>>, RMul(x.value, x.value)))]) :
       x \in {a}} : TRUE

realAdd(a, b) ==
  CHOOSE r \in
    {DualReal(RAdd(x.value, y.value),
              [i \in 1..Len(x.derivatives) |-> RAdd(x.derivatives[i], y.derivatives[i])]) :
       x \in {a}, y \in {b}} : TRUE

realSub(a, b) ==
  CHOOSE r \in
    {DualReal(RSub(x.value, y.value),
              [i \in 1..Len(x.derivatives) |-> RSub(x.derivatives[i], y.derivatives[i])]) :
       x \in {a}, y \in {b}} : TRUE

realNeg(a) ==
  CHOOSE r \in
    {DualReal(RNeg(x.value), [i \in 1..Len(x.derivatives) |-> RNeg(x.derivatives[i])]) :
       x \in {a}} : TRUE

complexMul(a, b) ==
  DualComplex(realSub(realMul(a.real, b.real), realMul(a.imag, b.imag)),
              realAdd(realMul(a.real, b.imag), realMul(a.imag, b.real)))

complexInverse(a) ==
  LET dividend == realInverse(realAdd(realMul(a.real, a.real), realMul(a.imag, a.imag)))
  IN DualComplex(realMul(a.real, dividend), realMul(realNeg(a.imag), dividend))

complexAdd(a, b) == DualComplex(realAdd(a.real, b.real), realAdd(a.imag, b.imag))

complexSub(a, b) == DualComplex(realSub(a.real, b.real), realSub(a.imag, b.imag))

\* ------------------------------------------------------------------------
\* buildVariables (calculation.ts)
\* ------------------------------------------------------------------------

\* a map is a sequence of [name, value] entries; a later entry of a name
\* replaces an earlier one, as an assignment to an object property does.
\* Names are the identifiers of the grammar; the properties an empty
\* JavaScript object inherits (constructor, toString, ...) are not modelled.
hasKey(map, name) == \E i \in 1..Len(map) : map[i].name = name

lookup(map, name) ==
  map[CHOOSE i \in 1..Len(map) :
        map[i].name = name /\ \A j \in (i + 1)..Len(map) : map[j].name # name].value

keys(map) == {map[i].name : i \in 1..Len(map)}

RECURSIVE flatten(_)
flatten(groups) ==
  IF groups = <<>> THEN <<>> ELSE Head(groups) \o flatten(Tail(groups))

\* the position buildVariables gives to the error of an external variable
ExternalErrorPos == [lineNr |-> 1, linePos |-> 1, lineStartPos |-> 0, pos |-> 0]

\* the declarations in the order of the two loops: external variables first
externalDeclarations(data) ==
  LET flat == flatten(data.variables)
  IN [i \in 1..Len(flat) |->
        [name |-> flat[i].name, locked |-> flat[i].locked,
         r |-> RMul(flat[i].value, siPrefixMap(flat[i].siPrefix)), i |-> Zero,
         errorPos |-> ExternalErrorPos]]

\* sourceDeclarations that takes every declaration for an unknown
sourceDeclarationsAllUnknown(sys) ==
  [i \in 1..Len(sys.variables) |->
     LET v == sys.variables[i]
         factor == siPrefixMap(v.value.siPrefix)
     IN [name |-> v.name.name, locked |-> FALSE,
         r |-> RMul(v.value.real, factor),
         i |-> RMul(IF v.value.hasImag THEN v.value.imag ELSE Zero, factor),
         errorPos |-> v.name.pos]]

sourceDeclarations(sys) ==
  [i \in 1..Len(sys.variables) |->
     LET v == sys.variables[i]
         factor == siPrefixMap(v.value.siPrefix)
     IN [name |-> v.name.name, locked |-> v.locked,
         r |-> RMul(v.value.real, factor),
         i |-> RMul(IF v.value.hasImag THEN v.value.imag ELSE Zero, factor),
         errorPos |-> v.name.pos]]

\* the variables object while the two loops run: it is filled by the actions,
\* which run after the loops
variablesWhileDeclaring == <<>>

\* the two loops: lockedVariable / unknownVariable queue one action per
\* declaration, an unknown takes two derivative indices
RECURSIVE declareVariables(_, _, _)
declareVariables(decls, k, acc) ==
  IF k > Len(decls) THEN acc
  ELSE LET d == decls[k]
       IN IF hasKey(variablesWhileDeclaring, d.name)
          THEN declareVariables(decls, k + 1,
                 [acc EXCEPT !.errors =
                    Append(@, [pos |-> d.errorPos,
                               errorMessage |-> "Duplicate variable",
                               name |-> d.name])])
          ELSE IF d.locked
          THEN declareVariables(decls, k + 1,
                 [acc EXCEPT !.actions =
                    Append(@, [name |-> d.name, locked |-> TRUE, r |-> d.r,
                               i |-> d.i, realIdx |-> -1, imagIdx |-> -1])])
          ELSE declareVariables(decls, k + 1,
                 [acc EXCEPT !.actions =
                    Append(@, [name |-> d.name, locked |-> FALSE, r |-> d.r,
                               i |-> d.i, realIdx |-> acc.derivativeIndex,
                               imagIdx |-> acc.derivativeIndex + 1]),
                             !.derivativeIndex = @ + 2])

\* lockedDualReal: a dual that no step changes
lockedRef(v) == [mutable |-> FALSE, index |-> 0, slot |-> -1, value |-> v]

\* a dual of an unknown that is one-hot at the slot of the unknown's real part
mutableRefAtRealSlot(v, index, slot) ==
  [mutable |-> TRUE, index |-> index, slot |-> slot - (slot % 2), value |-> v]

\* mutableDualReal: the dual pushed to mutables at position index, one-hot
\* at slot
mutableRef(v, index, slot) == [mutable |-> TRUE, index |-> index, slot |-> slot, value |-> v]

\* actions.forEach((a) => a())
RECURSIVE runActions(_, _, _)
runActions(actions, k, acc) ==
  IF k > Len(actions) THEN acc
  ELSE LET a == actions[k]
           n == Len(acc.mutables)
       IN IF a.locked
          THEN runActions(actions, k + 1,
                 [acc EXCEPT !.variables =
                    Append(@, [name |-> a.name,
                               value |-> [real |-> lockedRef(a.r),
                                          imag |-> lockedRef(a.i)]])])
          ELSE runActions(actions, k + 1,
                 [acc EXCEPT
                    !.mutables = @ \o << [slot |-> a.realIdx, value |-> a.r],
                                         [slot |-> a.imagIdx, value |-> a.i] >>,
                    !.variables =
                      Append(@, [name |-> a.name,
                                 value |-> [real |-> mutableRef(a.r, n + 1, a.realIdx),
                                            imag |-> mutableRef(a.i, n + 2, a.imagIdx)]])])

buildVariables(data, sys, errors) ==
  LET declared == declareVariables(externalDeclarations(data) \o sourceDeclarations(sys), 1,
                    [derivativeIndex |-> 0, actions |-> <<>>, errors |-> errors])
      ran == runActions(declared.actions, 1, [mutables |-> <<>>, variables |-> <<>>])
  IN [mutables |-> ran.mutables, variables |-> ran.variables,
      derivativeCount |-> declared.derivativeIndex, errors |-> declared.errors]

\* ------------------------------------------------------------------------
\* evaluateExpression and pushEquation (calculation.ts)
\* ------------------------------------------------------------------------

\* deepest nesting of definition calls followed before the JavaScript stack
\* is taken to be exhausted
MaxCallDepth == 3

\* The closures evaluateExpression returns are trees:
\*   value    - a DualComplex object no step reaches (a literal, the zero of
\*              an unknown symbol, or the result of an argument closure that
\*              was called while the equations were collected)
\*   variable - the DualComplex object of a variable, whose parts the steps
\*              change
\*   paren, binaryOp - closures that call their operands when called
valueClosure(dual) == [type |-> "value", dual |-> dual]
variableClosure(v) == [type |-> "variable", real |-> v.real, imag |-> v.imag]

\* the DualReal object of a part of a variable, with the values the mutables
\* have now
refDual(ref, mutables, n) ==
  IF ref.mutable
  THEN DualReal(mutables[ref.index].value, oneHotRange(n, ref.slot))
  ELSE DualReal(ref.value, zeroRange(n))

\* calling a closure
RECURSIVE callClosure(_, _, _)
callClosure(c, mutables, n) ==
  IF c.type = "value" THEN c.dual
  ELSE IF c.type = "variable"
  THEN DualComplex(refDual(c.real, mutables, n), refDual(c.imag, mutables, n))
  ELSE IF c.type = "paren" THEN callClosure(c.inner, mutables, n)
  ELSE CHOOSE v \in {IF c.operator = "*" THEN complexMul(l, r)
                     ELSE IF c.operator = "/" THEN complexMul(l, complexInverse(r))
                     ELSE IF c.operator = "+" THEN complexAdd(l, r)
                     ELSE complexSub(l, r) :
                     l \in {callClosure(c.left, mutables, n)},
                     r \in {callClosure(c.right, mutables, n)}} : TRUE

\* the object a closure returns when it is called while the equations are
\* collected: the object of a variable stays that object, everything else is
\* a new object holding the values of that moment
RECURSIVE calledWhileCollecting(_, _, _)
calledWhileCollecting(c, mutables, n) ==
  IF c.type = "variable" \/ c.type = "value" THEN c
  ELSE IF c.type = "paren" THEN calledWhileCollecting(c.inner, mutables, n)
  ELSE valueClosure(callClosure(c, mutables, n))

zeroComplex(n) == DualComplex(DualReal(Zero, zeroRange(n)), DualReal(Zero, zeroRange(n)))

\* resolveVariable: env is the stack of argument maps of the calls being
\* expanded, the innermost last; below them is the resolver of calculate,
\* which records an error for a name that is no variable
RECURSIVE resolveVariable(_, _, _, _, _)

\* a resolver that looks for a variable of the name before the arguments
resolveVariableVariablesFirst(name, env, k, built, errors) ==
  IF hasKey(built.variables, name.name)
  THEN [closure |-> variableClosure(lookup(built.variables, name.name)),
        errors |-> errors]
  ELSE IF k = 0
  THEN [closure |-> valueClosure(zeroComplex(built.derivativeCount)),
        errors |-> Append(errors, [pos |-> name.pos,
                                   errorMessage |-> "Unknown variable",
                                   name |-> name.name])]
  ELSE IF hasKey(env[k], name.name)
  THEN [closure |-> calledWhileCollecting(lookup(env[k], name.name),
                                        built.mutables, built.derivativeCount),
        errors |-> errors]
  ELSE resolveVariable(name, env, k - 1, built, errors)

resolveVariable(name, env, k, built, errors) ==
  IF k = 0
  THEN IF hasKey(built.variables, name.name)
       THEN [closure |-> variableClosure(lookup(built.variables, name.name)),
             errors |-> errors]
       ELSE [closure |-> valueClosure(zeroComplex(built.derivativeCount)),
             errors |-> Append(errors, [pos |-> name.pos,
                                        errorMessage |-> "Unknown variable",
                                        name |-> name.name])]
  ELSE IF hasKey(env[k], name.name)
  THEN [closure |-> calledWhileCollecting(lookup(env[k], name.name),
                                        built.mutables, built.derivativeCount),
        errors |-> errors]
  ELSE resolveVariable(name, env, k - 1, built, errors)

RECURSIVE evaluateExpression(_, _, _, _)
evaluateExpression(exp, env, built, errors) ==
  IF exp.type = "number"
  THEN LET factor == siPrefixMap(exp.value.siPrefix)
           n == built.derivativeCount
       IN [closure |->
             valueClosure(DualComplex(
               DualReal(RMul(exp.value.real, factor), zeroRange(n)),
               DualReal(RMul(IF exp.value.hasImag THEN exp.value.imag ELSE Zero, factor),
                        zeroRange(n)))),
           errors |-> errors]
  ELSE IF exp.type = "symbol"
  THEN resolveVariable(exp, env, Len(env), built, errors)
  ELSE IF exp.type = "paren"
  THEN LET inner == evaluateExpression(exp.expression, env, built, errors)
       IN [closure |-> [type |-> "paren", inner |-> inner.closure],
           errors |-> inner.errors]
  ELSE LET left == evaluateExpression(exp.left, env, built, errors)
           right == evaluateExpression(exp.right, env, built, left.errors)
       IN [closure |-> [type |-> "binaryOp", operator |-> exp.operator,
                        left |-> left.closure, right |-> right.closure],
           errors |-> right.errors]

\* Object.fromEntries(system.definitions.map((d) => [d.name, d]))
definitionsOf(sys) ==
  [i \in 1..Len(sys.definitions) |->
     [name |-> sys.definitions[i].name, value |-> sys.definitions[i]]]

\* the entry [name, closure] of an argument, e being its evaluated expression
withArgument(acc, name, e) ==
  [args |-> Append(acc.args, [name |-> name, value |-> e.closure]),
   errors |-> e.errors]

\* eq.arguments.map(...): the argument closures, built in the caller's scope
RECURSIVE evaluateArguments(_, _, _, _, _)
evaluateArguments(arguments, k, env, built, acc) ==
  IF k > Len(arguments) THEN acc
  ELSE evaluateArguments(arguments, k + 1, env, built,
         withArgument(acc, arguments[k].parameterName.name,
           evaluateExpression(arguments[k].argumentValue, env, built, acc.errors)))

toSet(seq) == {seq[i] : i \in 1..Len(seq)}

\* acc = [equations, errors, thrown]: the closures pushed so far, the errors
\* recorded so far, and what was thrown ("" while nothing was)
RECURSIVE pushEquation(_, _, _, _, _, _)
RECURSIVE pushEquations(_, _, _, _, _, _, _)

\* equations.push(() => left().sub(right())), the two sides being evaluated
pushTerminal(acc, left, right) ==
  [acc EXCEPT !.equations =
                Append(@, [type |-> "binaryOp", operator |-> "-",
                           left |-> left.closure, right |-> right.closure]),
              !.errors = right.errors]

\* the right side is evaluated after the left side
evaluateRight(eq, env, built, acc, left) ==
  pushTerminal(acc, left, evaluateExpression(eq.right, env, built, left.errors))

\* the checks of the arguments against the parameters of def, and the
\* equations of def with the arguments as their scope
pushCall(def, evaluated, env, sys, built, acc, depth) ==
  IF \E arg \in keys(evaluated.args) : arg \notin toSet(def.parameters)
  THEN [acc EXCEPT !.errors = evaluated.errors, !.thrown = "Unknown parameter"]
  ELSE IF \E param \in toSet(def.parameters) : param \notin keys(evaluated.args)
  THEN [acc EXCEPT !.errors = evaluated.errors, !.thrown = "Missing argument"]
  ELSE pushEquations(def.equations, 1, Append(env, evaluated.args), sys, built,
                     [acc EXCEPT !.errors = evaluated.errors], depth + 1)

pushEquation(eq, env, sys, built, acc, depth) ==
  IF acc.thrown # "" THEN acc
  ELSE IF eq.type = "equationTerminal"
  THEN evaluateRight(eq, env, built, acc,
                     evaluateExpression(eq.left, env, built, acc.errors))
  ELSE IF ~hasKey(definitionsOf(sys), eq.name.name)
  THEN [acc EXCEPT !.thrown = "Unknown definition"]
  ELSE IF depth >= MaxCallDepth
  THEN [acc EXCEPT !.thrown = "RangeError"]
  ELSE pushCall(lookup(definitionsOf(sys), eq.name.name),
                evaluateArguments(eq.arguments, 1, env, built,
                                  [args |-> <<>>, errors |-> acc.errors]),
                env, sys, built, acc, depth)

\* eqs.forEach / eqs.map over pushEquation; a throw ends it
pushEquations(eqs, k, env, sys, built, acc, depth) ==
  IF k > Len(eqs) \/ acc.thrown # "" THEN acc
  ELSE pushEquations(eqs, k + 1, env, sys, built,
                     pushEquation(eqs[k], env, sys, built, acc, depth), depth)

\* "collect equations": every top-level equation with the resolver of
\* calculate
collectEquations(sys, built) ==
  pushEquations(sys.equations, 1, <<>>, sys, built,
                [equations |-> <<>>, errors |-> built.errors, thrown |-> ""], 0)

\* ------------------------------------------------------------------------
\* solve (ml-matrix, called at calculation.ts:394), in exact arithmetic
\* ------------------------------------------------------------------------

RECURSIVE sumOver(_, _)
sumOver(seq, k) == IF k = 0 THEN Zero ELSE RAdd(seq[k], sumOver(seq, k - 1))

sumSeq(seq) == sumOver(seq, Len(seq))

removeAt(seq, p) == [i \in 1..(Len(seq) - 1) |-> IF i < p THEN seq[i] ELSE seq[i + 1]]

\* Gaussian elimination on the rows of an augmented n x (n + 1) matrix
RECURSIVE gauss(_, _)

\* the first row with an entry in the first column
firstPivot(rows) ==
  CHOOSE i \in 1..Len(rows) :
    /\ rows[i][1] # Zero
    /\ \A j \in 1..(i - 1) : rows[j][1] = Zero

\* the other rows without their first column, the pivot row prow subtracted
eliminated(prow, others, n) ==
  [i \in 1..Len(others) |->
     [j \in 1..n |->
        RSub(others[i][j + 1], RMul(RDiv(others[i][1], prow[1]), prow[j + 1]))]]

\* the solution of the rows from the solution sub of the eliminated rows
substituted(prow, sub, n) ==
  IF ~sub.ok THEN sub
  ELSE [ok |-> TRUE,
        x |-> <<RDiv(RSub(prow[n + 1],
                          sumSeq([j \in 1..(n - 1) |-> RMul(prow[j + 1], sub.x[j])])),
                     prow[1])>> \o sub.x]

\* the solution of the eliminated rows; the rows are eliminated once
gaussEliminated(rows, n) ==
  CHOOSE sub \in {gauss(reduced, n - 1) :
                    reduced \in {eliminated(rows[firstPivot(rows)],
                                            removeAt(rows, firstPivot(rows)), n)}} : TRUE

gauss(rows, n) ==
  IF n = 0 THEN [ok |-> TRUE, x |-> <<>>]
  ELSE IF \A i \in 1..Len(rows) : rows[i][1] = Zero THEN [ok |-> FALSE, x |-> <<>>]
  ELSE CHOOSE solution \in {substituted(rows[firstPivot(rows)], sub, n) :
                              sub \in {gaussEliminated(rows, n)}} : TRUE

\* solve(A, B): a square system by LU decomposition, which throws for a
\* singular matrix; any other by QR decomposition, which gives the least
\* squares solution and throws for a matrix that has not full column rank
solve(A, B, n) ==
  LET m == Len(A)
  IN IF m = 0 \/ n = 0 \/ m < n THEN [ok |-> FALSE, x |-> <<>>]
     ELSE IF m = n
     THEN gauss([i \in 1..m |-> A[i] \o <<B[i]>>], n)
     ELSE gauss([i \in 1..n |->
                   [j \in 1..(n + 1) |->
                      IF j <= n
                      THEN sumSeq([k \in 1..m |-> RMul(A[k][i], A[k][j])])
                      ELSE sumSeq([k \in 1..m |-> RMul(A[k][i], B[k])])]], n)

\* ------------------------------------------------------------------------
\* The Newton loop of calculate (calculation.ts:326-423)
\* ------------------------------------------------------------------------

\* the tolerance of the loop is 10^-ToleranceExp
ToleranceExp == 15

\* the loop ends when n exceeds IterationCap
IterationCap == 100

\* "build the equations": the rows of A and the entries of b
RECURSIVE buildRows(_, _, _, _, _)
buildRows(equations, k, mutables, n, acc) ==
  IF k > Len(equations) THEN acc
  ELSE CHOOSE rows \in
         {buildRows(equations, k + 1, mutables, n, next) :
            next \in {[aRows |-> acc.aRows \o <<v.real.derivatives, v.imag.derivatives>>,
                       b |-> acc.b \o <<RNeg(v.real.value), RNeg(v.imag.value)>>] :
                      v \in {callClosure(equations[k], mutables, n)}}} : TRUE

\* the square of B.norm()
normSquared(b) == sumSeq([i \in 1..Len(b) |-> RMul(b[i], b[i])])

\* e < 1e-15, decided on the squares
belowTolerance(e2) == IsNum(e2) /\ LtPow10(e2[1], e2[2], 2 * ToleranceExp)

\* the decimal digits of f^k, lowest first
RECURSIVE timesDigit(_, _, _)
timesDigit(ds, f, carry) ==
  CHOOSE r \in
    {IF digits = <<>>
     THEN IF c = 0 THEN <<>> ELSE <<c % 10>> \o timesDigit(<<>>, f, c \div 10)
     ELSE LET v == Head(digits) * f + c
          IN <<v % 10>> \o timesDigit(Tail(digits), f, v \div 10) :
       digits \in {ds}, c \in {carry}} : TRUE

RECURSIVE powerDigits(_, _)
powerDigits(f, k) == IF k = 0 THEN <<1>> ELSE timesDigit(powerDigits(f, k - 1), f, 0)

\* alpha is 0.9^k after k shrinks and is held as k.
\* alpha < 0.1: 0.9^k < 0.1 iff 10 * 9^k < 10^k iff 9^k has fewer than k digits
alphaBelowFloor(k) == Len(powerDigits(9, k)) < k

loopEndsOnAlphaOnly(k, n) == alphaBelowFloor(k)

\* if (alpha < 0.1 || n > 100) break;
loopEnds(k, n) == alphaBelowFloor(k) \/ n > IterationCap

RECURSIVE alphaValue(_)
alphaValue(k) == IF k = 0 THEN One ELSE RMul(<<9, 10>>, alphaValue(k - 1))

\* alpha * d
alphaTimes(k, d) == IF d = Zero THEN Zero ELSE RMul(alphaValue(k), d)

\* a shrink also when e is lastError * 0.99
shrinkAlphaOnEquality(lastError, e2) ==
  lastError.defined /\ ~RLt(e2, RMul(lastError.e2, <<9801, 10000>>))

\* lastError !== undefined && e > lastError * 0.99, decided on the squares
shrinkAlpha(lastError, e2) ==
  lastError.defined /\ RLt(RMul(lastError.e2, <<9801, 10000>>), e2)

\* the step with its components taken from the last to the first
performStepReversed(mutables, alpha, d) ==
  [idx \in 1..Len(mutables) |->
     [mutables[idx] EXCEPT !.value = RAdd(@, alphaTimes(alpha, d[Len(mutables) - idx + 1]))]]

\* "perform the step"
performStep(mutables, alpha, d) ==
  [idx \in 1..Len(mutables) |->
     [mutables[idx] EXCEPT !.value = RAdd(@, alphaTimes(alpha, d[idx]))]]

\* ------------------------------------------------------------------------
\* Number to text (the string concatenation of calculation.ts:371-379)
\* ------------------------------------------------------------------------

\* most digits written after the decimal point
MaxFractionDigits == 17

RECURSIVE integerDigits(_)
integerDigits(i) ==
  IF i < 10 THEN <<DigitChars[i + 1]>>
  ELSE integerDigits(i \div 10) \o <<DigitChars[(i % 10) + 1]>>

RECURSIVE fractionDigits(_, _, _)
fractionDigits(rem, d, k) ==
  IF rem = 0 \/ k = 0 THEN <<>>
  ELSE <<DigitChars[((rem * 10) \div d) + 1]>> \o fractionDigits((rem * 10) % d, d, k - 1)

\* the text JavaScript gives a number in string concatenation, for the
\* magnitudes it writes without an exponent
numberToString(r) ==
  IF ~IsNum(r) THEN <<"N", "a", "N">>
  ELSE LET a == Abs(r[1])
           frac == fractionDigits(a % r[2], r[2], MaxFractionDigits)
       IN (IF r[1] < 0 THEN <<"-">> ELSE <<>>)
          \o integerDigits(a \div r[2])
          \o (IF frac = <<>> THEN <<>> ELSE <<".">> \o frac)

\* ------------------------------------------------------------------------
\* "apply the solution": the function calculate hands to updateProject
\* ------------------------------------------------------------------------

refValue(ref, mutables) == IF ref.mutable THEN mutables[ref.index].value ELSE ref.value

substring(src, from, to) == SubSeq(src, from + 1, to)

\* replaceSpan with the column of the span taken for its offset
replaceSpanAtColumn(src, start, length, text) ==
  substring(src, 0, start + 1) \o text \o substring(src, start + 1 + length, Len(src))

\* replaceSpan that leaves the old text in place
replaceSpanInserting(src, start, length, text) ==
  substring(src, 0, start) \o text \o substring(src, start, Len(src))

\* src.substring(0, start) + value + src.substring(start + length)
replaceSpan(src, start, length, text) ==
  substring(src, 0, start) \o text \o substring(src, start + length, Len(src))

\* [...system.variables].reverse().filter((x) => !x.locked).forEach(...)
RECURSIVE patchSource(_, _, _, _, _)

\* a patch that takes the declarations in the order of the source
patchSourceForward(src, variables, k, built, mutables) ==
  IF k = 0 THEN src
  ELSE LET v == variables[Len(variables) - k + 1]
       IN IF v.locked THEN patchSource(src, variables, k - 1, built, mutables)
          ELSE LET variableValue == lookup(built.variables, v.name.name)
                   factor == siPrefixMap(v.value.siPrefix)
                   src1 == IF v.value.hasImag
                           THEN replaceSpan(src, v.value.imagStart.pos, v.value.imagLength,
                                  numberToString(RDiv(refValue(variableValue.imag, mutables),
                                                      factor)))
                           ELSE src
                   src2 == replaceSpan(src1, v.value.realStart.pos, v.value.realLength,
                             numberToString(RDiv(refValue(variableValue.real, mutables),
                                                 factor)))
               IN patchSource(src2, variables, k - 1, built, mutables)

patchSource(src, variables, k, built, mutables) ==
  IF k = 0 THEN src
  ELSE LET v == variables[k]
       IN IF v.locked THEN patchSource(src, variables, k - 1, built, mutables)
          ELSE LET variableValue == lookup(built.variables, v.name.name)
                   factor == siPrefixMap(v.value.siPrefix)
                   src1 == IF v.value.hasImag
                           THEN replaceSpan(src, v.value.imagStart.pos, v.value.imagLength,
                                  numberToString(RDiv(refValue(variableValue.imag, mutables),
                                                      factor)))
                           ELSE src
                   src2 == replaceSpan(src1, v.value.realStart.pos, v.value.realLength,
                             numberToString(RDiv(refValue(variableValue.real, mutables),
                                                 factor)))
               IN patchSource(src2, variables, k - 1, built, mutables)

\* updatedVariables that returns the variables as they were
updatedVariablesUnchanged(groups, built, mutables) == groups

\* p.data.variables.map((group) => group.map((v) => ({...v, value: ...})))
updatedVariables(groups, built, mutables) ==
  [g \in 1..Len(groups) |->
     [i \in 1..Len(groups[g]) |->
        LET v == groups[g][i]
        IN [v EXCEPT !.value =
              IF v.locked THEN v.value
              ELSE refValue(lookup(built.variables, v.name).real, mutables)]]]

\* what the function handed to updateProject returns for the project p
appliedSolution(p, sys, built, mutables) ==
  [sourceCode |-> patchSource(p.sourceCode, sys.variables, Len(sys.variables),
                              built, mutables),
   variables |-> updatedVariables(p.variables, built, mutables)]

\* ------------------------------------------------------------------------
\* The projects calculate is run on
\* ------------------------------------------------------------------------

\* "var a="
SrcVarA ==
  <<"v", "a", "r", " ", "a", "=">>

\* "; lvar b="
SrcLvarB ==
  <<";", " ", "l", "v", "a", "r", " ", "b", "=">>

\* "; var c="
SrcVarC ==
  <<";", " ", "v", "a", "r", " ", "c", "=">>

\* "; a * b=c;c=6;"
SrcMulEquations ==
  <<";", " ", "a", " ", "*", " ", "b", "=", "c", ";", "c", "=", "6", ";">>

\* "a * b=c;c=6;"
SrcExternalMul ==
  <<"a", " ", "*", " ", "b", "=", "c", ";", "c", "=", "6", ";">>

\* "var a=1; a=b;"
SrcUnknownSymbol ==
  <<"v", "a", "r", " ", "a", "=", "1", ";", " ", "a", "=", "b", ";">>

\* "var a=1; foo(); a=x;"
SrcUnknownDefinition ==
  <<"v", "a", "r", " ", "a", "=", "1", ";", " ", "f", "o", "o", "(", ")",
    ";", " ", "a", "=", "x", ";">>

\* "var a=1; var a=2; a=3;"
SrcDuplicateSource ==
  <<"v", "a", "r", " ", "a", "=", "1", ";", " ", "v", "a", "r", " ", "a",
    "=", "2", ";", " ", "a", "=", "3", ";">>

\* "var a=1; lvar a=3; a=3;"
SrcDuplicateLocked ==
  <<"v", "a", "r", " ", "a", "=", "1", ";", " ", "l", "v", "a", "r", " ",
    "a", "=", "3", ";", " ", "a", "=", "3", ";">>

\* "a=3;"
SrcAssignA ==
  <<"a", "=", "3", ";">>

\* "var a=1; a=3;"
SrcVarAssignA ==
  <<"v", "a", "r", " ", "a", "=", "1", ";", " ", "a", "=", "3", ";">>

\* "var a=1; a=1; a=3;"
SrcInconsistent ==
  <<"v", "a", "r", " ", "a", "=", "1", ";", " ", "a", "=", "1", ";", " ",
    "a", "=", "3", ";">>

\* "var a=;"
SrcParseError ==
  <<"v", "a", "r", " ", "a", "=", ";">>

\* "var a=2.0; // a\nlvar b = 1.50 ;\na = 2;"
SrcFraction ==
  <<"v", "a", "r", " ", "a", "=", "2", ".", "0", ";", " ", "/", "/", " ",
    "a", "\n", "l", "v", "a", "r", " ", "b", " ", "=", " ", "1", ".", "5",
    "0", " ", ";", "\n", "a", " ", "=", " ", "2", ";">>

\* "var z=1:1; lvar w=0:1; z=2+w*3;"
SrcComplex ==
  <<"v", "a", "r", " ", "z", "=", "1", ":", "1", ";", " ", "l", "v", "a",
    "r", " ", "w", "=", "0", ":", "1", ";", " ", "z", "=", "2", "+", "w",
    "*", "3", ";">>

\* "def twice(x, y) { y=x+x; }\nvar a=1; lvar b=3; twice(x: b, y: a);"
SrcDefinition ==
  <<"d", "e", "f", " ", "t", "w", "i", "c", "e", "(", "x", ",", " ", "y",
    ")", " ", "{", " ", "y", "=", "x", "+", "x", ";", " ", "}", "\n", "v",
    "a", "r", " ", "a", "=", "1", ";", " ", "l", "v", "a", "r", " ", "b",
    "=", "3", ";", " ", "t", "w", "i", "c", "e", "(", "x", ":", " ", "b",
    ",", " ", "y", ":", " ", "a", ")", ";">>

\* "var a=0; 1/a=1;"
SrcDivisionByZero ==
  <<"v", "a", "r", " ", "a", "=", "0", ";", " ", "1", "/", "a", "=", "1",
    ";">>

\* "var a=1; a+2=0;"
SrcNegative ==
  <<"v", "a", "r", " ", "a", "=", "1", ";", " ", "a", "+", "2", "=", "0", ";">>

\* "var a=0; 100+419*a*a+123*a*a*a*a=100*a+443*a*a*a;":
\* the residual 123a^4 - 443a^3 + 419a^2 - 100a + 100 is 100 at a = 0, the
\* first step leads to a = 1, where it is 99, and the second to the root a = 2
SrcDampingEquality ==
  <<"v", "a", "r", " ", "a", "=", "0", ";", " ", "1", "0", "0", "+", "4",
    "1", "9", "*", "a", "*", "a", "+", "1", "2", "3", "*", "a", "*", "a",
    "*", "a", "*", "a", "=", "1", "0", "0", "*", "a", "+", "4", "4", "3",
    "*", "a", "*", "a", "*", "a", ";">>

\* "lvar b=2; var c=1; a * b=c;c=6;", for a project with a as an external variable
SrcExternalAndSource ==
  <<"l", "v", "a", "r", " ", "b", "=", "2", ";", " ", "v", "a", "r", " ",
    "c", "=", "1", ";", " ", "a", " ", "*", " ", "b", "=", "c", ";", "c",
    "=", "6", ";">>

\* "def eq(x) { x=3; }\nvar a=1; var b=1; eq(x: a+1); b*b+1=0;":
\* a call with an expression as its argument; the second equation has no
\* real solution, its Jacobian is singular after the first step
SrcCallExpression ==
  <<"d", "e", "f", " ", "e", "q", "(", "x", ")", " ", "{", " ", "x", "=",
    "3", ";", " ", "}", "\n", "v", "a", "r", " ", "a", "=", "1", ";", " ",
    "v", "a", "r", " ", "b", "=", "1", ";", " ", "e", "q", "(", "x", ":",
    " ", "a", "+", "1", ")", ";", " ", "b", "*", "b", "+", "1", "=", "0",
    ";">>

\* "def inner(d) { d=b; }\n def outer(b, c) { inner(d: c); b=4; }\n
\* var a=1; lvar b=2; var c=3; var d=5; outer(b: d, c: a); c=3;":
\* in outer, b and c are the variables d and a; in inner, d is the variable a
\* and b is the variable d
SrcShadowing ==
  <<"d", "e", "f", " ", "i", "n", "n", "e", "r", "(", "d", ")", " ", "{",
    " ", "d", "=", "b", ";", " ", "}", "\n", "d", "e", "f", " ", "o", "u",
    "t", "e", "r", "(", "b", ",", " ", "c", ")", " ", "{", " ", "i", "n",
    "n", "e", "r", "(", "d", ":", " ", "c", ")", ";", " ", "b", "=", "4",
    ";", " ", "}", "\n", "v", "a", "r", " ", "a", "=", "1", ";", " ", "l",
    "v", "a", "r", " ", "b", "=", "2", ";", " ", "v", "a", "r", " ", "c",
    "=", "3", ";", " ", "v", "a", "r", " ", "d", "=", "5", ";", " ", "o",
    "u", "t", "e", "r", "(", "b", ":", " ", "d", ",", " ", "c", ":", " ",
    "a", ")", ";", " ", "c", "=", "3", ";">>

\* "def f(x, y) { x=y; }\n var a=1; f(x: a);"
SrcMissingArgument ==
  <<"d", "e", "f", " ", "f", "(", "x", ",", " ", "y", ")", " ", "{", " ",
    "x", "=", "y", ";", " ", "}", "\n", "v", "a", "r", " ", "a", "=", "1",
    ";", " ", "f", "(", "x", ":", " ", "a", ")", ";">>

\* "def f(x) { x=1; }\n var a=1; f(x: a, z: a);"
SrcUnknownParameter ==
  <<"d", "e", "f", " ", "f", "(", "x", ")", " ", "{", " ", "x", "=", "1",
    ";", " ", "}", "\n", "v", "a", "r", " ", "a", "=", "1", ";", " ", "f",
    "(", "x", ":", " ", "a", ",", " ", "z", ":", " ", "a", ")", ";">>

\* "def f(x) { x=2; }\n var a=1; var b=1; f(x: a, x: b); a=2;"
SrcDuplicateArgument ==
  <<"d", "e", "f", " ", "f", "(", "x", ")", " ", "{", " ", "x", "=", "2",
    ";", " ", "}", "\n", "v", "a", "r", " ", "a", "=", "1", ";", " ", "v",
    "a", "r", " ", "b", "=", "1", ";", " ", "f", "(", "x", ":", " ", "a",
    ",", " ", "x", ":", " ", "b", ")", ";", " ", "a", "=", "2", ";">>

\* "var a=1:10; var b=10; a+a=25:3; b=3;": solved by a = 12.5:1.5 and b = 3
SrcLengthChanging ==
  <<"v", "a", "r", " ", "a", "=", "1", ":", "1", "0", ";", " ", "v", "a",
    "r", " ", "b", "=", "1", "0", ";", " ", "a", "+", "a", "=", "2", "5",
    ":", "3", ";", " ", "b", "=", "3", ";">>

\* a call with a line break between the name and the arguments
SrcCallAcrossLines ==
  <<"d", "e", "f", " ", "f", "(", "x", ")", " ", "{", " ", "x", "=", "2",
    ";", " ", "}", "\n", "v", "a", "r", " ", "a", "=", "1", ";", " ", "f",
    "\n", "(", "x", ":", " ", "a", ")", ";">>

\* a definition whose body calls itself
SrcSelfCall ==
  <<"d", "e", "f", " ", "f", "(", "x", ")", " ", "{", " ", "f", "(", "x",
    ":", " ", "x", ")", ";", " ", "}", "\n", "v", "a", "r", " ", "a", "=",
    "1", ";", " ", "f", "(", "x", ":", " ", "a", ")", ";">>

\* two definitions that call each other
SrcMutualCall ==
  <<"d", "e", "f", " ", "f", "(", "x", ")", " ", "{", " ", "g", "(", "x",
    ":", " ", "x", ")", ";", " ", "}", "\n", "d", "e", "f", " ", "g", "(",
    "x", ")", " ", "{", " ", "f", "(", "x", ":", " ", "x", ")", ";", " ",
    "}", "\n", "v", "a", "r", " ", "a", "=", "1", ";", " ", "f", "(", "x",
    ":", " ", "a", ")", ";">>

\* an equation that a = 3 k meets
SrcAssignThousands ==
  <<"a", "=", "3", "0", "0", "0", ";">>

NameA == <<"a">>
NameB == <<"b">>
NameC == <<"c">>

\* a VariableDefinition of App.tsx
externalVariable(id, name, initial, locked) ==
  [id |-> id, name |-> name, value |-> FromInt(initial), locked |-> locked,
   siPrefix |-> "", unit |-> "", description |-> ""]

\* an unknown VariableDefinition with an SI prefix
prefixedVariable(id, name, initial, prefix) ==
  [externalVariable(id, name, initial, FALSE) EXCEPT !.siPrefix = prefix]

\* the variables of a project without external variables
NoVariables == << <<>>, <<>> >>

\* "var a=<a>; lvar b=<b>; var c=<c>; a * b=c;c=6;"
sourceProject(a, b, c) ==
  [sourceCode |-> SrcVarA \o integerDigits(a) \o SrcLvarB \o integerDigits(b)
                  \o SrcVarC \o integerDigits(c) \o SrcMulEquations,
   variables |-> NoVariables]

\* "a * b=c;c=6;" with a, locked b and c as external variables in two groups
externalProject(a, b, c) ==
  [sourceCode |-> SrcExternalMul,
   variables |-> << <<externalVariable(1, NameA, a, FALSE)>>,
                    <<externalVariable(2, NameB, b, TRUE),
                      externalVariable(3, NameC, c, FALSE)>> >>]

GeneratedProjects ==
  {sourceProject(a, b, c) : a \in 0..MaxInitValue, b \in 0..MaxLockedValue, c \in {1, 6}}
  \cup {externalProject(a, b, c) :
          a \in 0..MaxInitValue, b \in 0..MaxLockedValue, c \in {1, 6}}

FixedProjects ==
  {[sourceCode |-> src, variables |-> NoVariables] :
     src \in {SrcUnknownSymbol, SrcUnknownDefinition, SrcDuplicateSource,
              SrcDuplicateLocked, SrcInconsistent, SrcParseError, SrcFraction,
              SrcComplex, SrcDefinition, SrcDivisionByZero, SrcNegative,
              SrcDampingEquality, SrcCallExpression,
              SrcShadowing,
              SrcMissingArgument,
              SrcUnknownParameter,
              SrcDuplicateArgument,
              SrcLengthChanging,
              SrcCallAcrossLines,
              SrcSelfCall,
              SrcMutualCall}}
  \cup {[sourceCode |-> SrcAssignA,
         variables |-> << <<externalVariable(1, NameA, 1, FALSE),
                            externalVariable(2, NameA, 2, FALSE)>> >>],
        [sourceCode |-> SrcVarAssignA,
         variables |-> << <<externalVariable(1, NameA, 3, TRUE)>> >>],
        [sourceCode |-> SrcExternalAndSource,
         variables |-> << <<externalVariable(1, NameA, 1, FALSE)>> >>],
        [sourceCode |-> SrcAssignThousands,
         variables |-> << <<prefixedVariable(1, NameA, 3, "k")>> >>],
        [sourceCode |-> SrcAssignA,
         variables |-> << <<externalVariable(1, NameA, 3, FALSE)>> >>]}

Projects == GeneratedProjects \cup FixedProjects

\* ------------------------------------------------------------------------
\* calculate as a state machine
\* ------------------------------------------------------------------------

VARIABLES
  data,       \* the ProjectData calculate is called with
  pc,         \* where calculate is: "parse", "build", "newton", "done"
  sys,        \* the AstSystem of the source
  built,      \* what buildVariables returned
  equations,  \* the closures collected by pushEquation
  mutables,   \* the DualReal objects of the unknowns, with their values now
  errors,     \* the CompileErrors collected
  alpha,      \* the number of times alpha was multiplied by 0.9
  n,          \* the iteration counter
  lastError,  \* the squared error of the previous iteration, if any
  exit,       \* how calculate ended, "" while it runs
  result,     \* what the caller of calculate gets: a return or a throw
  updates,    \* the results of the calls of updateProject, in order
  steps,      \* the number of update steps performed
  input,      \* the text a grammar function is applied to
  parsed      \* the result of that grammar function

vars == <<data, pc, sys, built, equations, mutables, errors, alpha, n, lastError,
          exit, result, updates, steps, input, parsed>>

NoBuilt == [mutables |-> <<>>, variables |-> <<>>, derivativeCount |-> 0, errors |-> <<>>]
NoLastError == [defined |-> FALSE, e2 |-> Zero]
Running == [kind |-> "running", value |-> ""]
ReturnsUndefined == [kind |-> "return", value |-> "undefined"]
Throws(what) == [kind |-> "throw", value |-> what]
NoInput == [rule |-> "none", text |-> <<>>]

Init ==
  /\ data \in Projects
  /\ pc = "parse"
  /\ sys = EmptySystem
  /\ built = NoBuilt
  /\ equations = <<>>
  /\ mutables = <<>>
  /\ errors = <<>>
  /\ alpha = 0
  /\ n = 0
  /\ lastError = NoLastError
  /\ exit = ""
  /\ result = Running
  /\ updates = <<>>
  /\ steps = 0
  /\ input = NoInput
  /\ parsed = Ok(ParserInit, "undefined")

\* calculation.ts:193  new Grammar(data.sourceCode).system()
Parse ==
  /\ pc = "parse"
  /\ \E r \in {parseSystem(data.sourceCode)} :
        IF r.ok
        THEN /\ sys' = r.val
             /\ pc' = "build"
             /\ UNCHANGED <<errors, exit, result>>
        ELSE /\ pc' = "done"
             /\ exit' = "parseError"
             /\ errors' = <<r.err>>
             /\ result' = Throws("CompileError")
             /\ UNCHANGED sys
  /\ UNCHANGED <<data, built, equations, mutables, alpha, n, lastError, updates,
                 steps, input, parsed>>

\* calculation.ts:194-323  buildVariables, collect equations, throw errors
Build ==
  /\ pc = "build"
  /\ \E b \in {buildVariables(data, sys, <<>>)} :
     \E c \in {collectEquations(sys, b)} :
        /\ built' = b
        /\ errors' = c.errors
        /\ IF c.thrown # ""
           THEN /\ pc' = "done"
                /\ exit' = "thrown"
                /\ result' = Throws(c.thrown)
                /\ UNCHANGED <<equations, mutables>>
           ELSE IF Len(c.errors) > 0
           THEN /\ pc' = "done"
                /\ exit' = "compileErrors"
                /\ result' = Throws("errors")
                /\ UNCHANGED <<equations, mutables>>
           ELSE /\ pc' = "newton"
                /\ equations' = c.equations
                /\ mutables' = b.mutables
                /\ UNCHANGED <<exit, result>>
  /\ UNCHANGED <<data, sys, alpha, n, lastError, updates, steps, input, parsed>>

\* Iterate that applies the values also when the loop gives up
IterateApplyingOnExit ==
  /\ pc = "newton"
  /\ \E rows \in {buildRows(equations, 1, mutables, built.derivativeCount,
                             [aRows |-> <<>>, b |-> <<>>])} :
     \E e2 \in {normSquared(rows.b)} :
     \E d \in {solve(rows.aRows, rows.b, built.derivativeCount)} :
     \E alphaNext \in {IF shrinkAlpha(lastError, e2) THEN alpha + 1 ELSE alpha} :
        IF belowTolerance(e2)
        THEN /\ updates' = Append(updates, appliedSolution(data, sys, built, mutables))
             /\ pc' = "done"
             /\ exit' = "solved"
             /\ result' = ReturnsUndefined
             /\ UNCHANGED <<mutables, alpha, n, lastError, steps>>
        ELSE IF ~d.ok
        THEN /\ pc' = "done"
             /\ exit' = "numericalError"
             /\ result' = Throws("Error")
             /\ UNCHANGED <<mutables, alpha, n, lastError, steps, updates>>
        ELSE /\ mutables' = performStep(mutables, alpha, d.x)
             /\ steps' = steps + 1
             /\ alpha' = alphaNext
             /\ IF alphaBelowFloor(alphaNext) \/ n > IterationCap
                THEN /\ pc' = "done"
                     /\ exit' = IF alphaBelowFloor(alphaNext)
                                THEN "alphaFloor" ELSE "iterationCap"
                     /\ result' = ReturnsUndefined
                     /\ updates' = Append(updates,
                                     appliedSolution(data, sys, built, mutables'))
                     /\ UNCHANGED <<n, lastError>>
                ELSE /\ lastError' = [defined |-> TRUE, e2 |-> e2]
                     /\ n' = n + 1
                     /\ UNCHANGED <<pc, exit, result, updates>>
  /\ UNCHANGED <<data, sys, built, equations, errors, input, parsed>>

\* calculation.ts:332-423  one round of the while loop
Iterate ==
  /\ pc = "newton"
  /\ \E rows \in {buildRows(equations, 1, mutables, built.derivativeCount,
                             [aRows |-> <<>>, b |-> <<>>])} :
     \E e2 \in {normSquared(rows.b)} :
     \E d \in {solve(rows.aRows, rows.b, built.derivativeCount)} :
     \E alphaNext \in {IF shrinkAlpha(lastError, e2) THEN alpha + 1 ELSE alpha} :
        IF belowTolerance(e2)
        THEN /\ updates' = Append(updates, appliedSolution(data, sys, built, mutables))
             /\ pc' = "done"
             /\ exit' = "solved"
             /\ result' = ReturnsUndefined
             /\ UNCHANGED <<mutables, alpha, n, lastError, steps>>
        ELSE IF ~d.ok
        THEN /\ pc' = "done"
             /\ exit' = "numericalError"
             /\ result' = Throws("Error")
             /\ UNCHANGED <<mutables, alpha, n, lastError, steps, updates>>
        ELSE /\ mutables' = performStep(mutables, alpha, d.x)
             /\ steps' = steps + 1
             /\ alpha' = alphaNext
             /\ UNCHANGED updates
             /\ IF loopEnds(alphaNext, n)
                THEN /\ pc' = "done"
                     /\ exit' = IF alphaBelowFloor(alphaNext)
                                THEN "alphaFloor" ELSE "iterationCap"
                     /\ result' = ReturnsUndefined
                     /\ UNCHANGED <<n, lastError>>
                ELSE /\ lastError' = [defined |-> TRUE, e2 |-> e2]
                     /\ n' = n + 1
                     /\ UNCHANGED <<pc, exit, result>>
  /\ UNCHANGED <<data, sys, built, equations, errors, input, parsed>>

Next == Parse \/ Build \/ Iterate

Spec == Init /\ [][Next]_vars

\* ------------------------------------------------------------------------
\* The grammar functions applied to generated texts
\* ------------------------------------------------------------------------

\* the arguments a generated call is made of: positional or named
ArgumentKinds ==
  { [named |-> FALSE, text |-> <<"1">>],
    [named |-> FALSE, text |-> <<"1", "2">>],
    [named |-> TRUE, text |-> <<"a", ":", "1">>],
    [named |-> TRUE, text |-> <<"f", "o", "o", ":", "b", "a", "r">>] }

ArgumentLists == UNION {[1..k -> ArgumentKinds] : k \in 0..MaxArgs}

RECURSIVE joinArguments(_, _)
joinArguments(args, k) ==
  IF k > Len(args) THEN <<>>
  ELSE (IF k > 1 THEN <<",">> ELSE <<>>) \o args[k].text \o joinArguments(args, k + 1)

\* "foo(<arguments>)" followed by ";" or by nothing
callInput(args, terminated) ==
  [rule |-> "call", args |-> args, terminated |-> terminated,
   text |-> <<"f", "o", "o", "(">> \o joinArguments(args, 1) \o <<")">>
            \o (IF terminated THEN <<";">> ELSE <<>>)]

CallInputs == {callInput(args, t) : args \in ArgumentLists, t \in BOOLEAN}

\* the blanks between two tokens: a run of one blank character
Gaps == {[k \in 1..len |-> blank] : len \in 0..MaxGap, blank \in {" ", "\n"}}

\* "a <op> <second> = c;" with a gap after each of the first five tokens
equationInput(op, second, g1, g2, g3, g4, g5) ==
  [rule |-> "equation", op |-> op, second |-> second,
   offsetSecond |-> 1 + Len(g1) + 1 + Len(g2),
   offsetThird |-> 1 + Len(g1) + 1 + Len(g2) + Len(second) + Len(g3) + 1 + Len(g4),
   text |-> <<"a">> \o g1 \o <<op>> \o g2 \o second \o g3 \o <<"=">> \o g4
            \o <<"c">> \o g5 \o <<";">>]

EquationInputs ==
  {equationInput(op, second, g1, g2, g3, g4, g5) :
     op \in {"*", "+"}, second \in {<<"b">>, <<"b", "2">>},
     g1 \in Gaps, g2 \in Gaps, g3 \in Gaps, g4 \in Gaps, g5 \in Gaps}

GrammarInit ==
  /\ input \in CallInputs \cup EquationInputs
  /\ pc = "apply"
  /\ parsed = Ok(ParserInit, "undefined")
  /\ data = [sourceCode |-> <<>>, variables |-> NoVariables]
  /\ sys = EmptySystem
  /\ built = NoBuilt
  /\ equations = <<>>
  /\ mutables = <<>>
  /\ errors = <<>>
  /\ alpha = 0
  /\ n = 0
  /\ lastError = NoLastError
  /\ exit = ""
  /\ result = Running
  /\ updates = <<>>
  /\ steps = 0

\* new Grammar(text).call()
ApplyCall ==
  /\ pc = "apply"
  /\ input.rule = "call"
  /\ parsed' = run(call, input.text, ParserInit)
  /\ pc' = "applied"
  /\ UNCHANGED <<data, sys, built, equations, mutables, errors, alpha, n, lastError,
                 exit, result, updates, steps, input>>

\* new Grammar(text).equation()
ApplyEquation ==
  /\ pc = "apply"
  /\ input.rule = "equation"
  /\ parsed' = run(equation, input.text, ParserInit)
  /\ pc' = "applied"
  /\ UNCHANGED <<data, sys, built, equations, mutables, errors, alpha, n, lastError,
                 exit, result, updates, steps, input>>

GrammarNext == ApplyCall \/ ApplyEquation

GrammarSpec == GrammarInit /\ [][GrammarNext]_vars

\* ------------------------------------------------------------------------
\* Properties of calculate
\* ------------------------------------------------------------------------

\* the value the real part of the variable of a name has now
solvedValue(name) == refValue(lookup(built.variables, name).real, mutables)

\* "var a=2; lvar b=3; var c=6; a * b=c;c=6;"
SrcSolved ==
  <<"v", "a", "r", " ", "a", "=", "2", ";", " ", "l", "v", "a", "r", " ",
    "b", "=", "3", ";", " ", "v", "a", "r", " ", "c", "=", "6", ";", " ",
    "a", " ", "*", " ", "b", "=", "c", ";", "c", "=", "6", ";">>

\* C1: for "var a=1; lvar b=3; var c=1; a * b=c;c=6;" without external
\* variables calculate ends with the residual below the tolerance, with
\* a = 2, b = 3, c = 6, and hands updateProject exactly the source
\* "var a=2; lvar b=3; var c=6; a * b=c;c=6;"
C1_SolveMultiplication ==
  (data = sourceProject(1, 3, 1) /\ pc = "done") =>
    /\ exit = "solved"
    /\ Len(updates) = 1
    /\ updates[1].sourceCode = SrcSolved
    /\ solvedValue(NameA) = FromInt(2)
    /\ solvedValue(NameB) = FromInt(3)
    /\ solvedValue(NameC) = FromInt(6)

C1_Witness ==
  /\ data = sourceProject(1, 3, 1)
  /\ pc = "done"
  /\ exit = "solved"
  /\ steps = 1

\* C2: on a successful solve the returned external variables have the groups,
\* the order and the other fields of the input; a locked entry keeps its
\* value and an unknown entry has the solved value of the variable of its
\* name (a = 1, locked b = 3, c = 1 with a*b=c; c=6 returns 2, 3, 6)
C2_ExternalVariablesUpdated ==
  exit = "solved" =>
    LET old == data.variables
        new == updates[1].variables
    IN /\ Len(new) = Len(old)
       /\ \A g \in 1..Len(old) :
            /\ Len(new[g]) = Len(old[g])
            /\ \A i \in 1..Len(old[g]) :
                 /\ [new[g][i] EXCEPT !.value = old[g][i].value] = old[g][i]
                 /\ new[g][i].value =
                      IF old[g][i].locked THEN old[g][i].value
                      ELSE solvedValue(old[g][i].name)
       /\ data = externalProject(1, 3, 1) =>
            /\ new[1][1].value = FromInt(2)
            /\ new[2][1].value = FromInt(3)
            /\ new[2][2].value = FromInt(6)

C2_Witness ==
  /\ data = externalProject(1, 3, 1)
  /\ exit = "solved"
  /\ Len(updates) = 1
  /\ updates[1].variables[1][1].value = FromInt(2)

RECURSIVE symbolsOfExpression(_)
symbolsOfExpression(e) ==
  IF e.type = "symbol" THEN {e}
  ELSE IF e.type = "number" THEN {}
  ELSE IF e.type = "paren" THEN symbolsOfExpression(e.expression)
  ELSE symbolsOfExpression(e.left) \cup symbolsOfExpression(e.right)

symbolsOfEquation(eq) ==
  IF eq.type = "equationTerminal"
  THEN symbolsOfExpression(eq.left) \cup symbolsOfExpression(eq.right)
  ELSE UNION {symbolsOfExpression(eq.arguments[i].argumentValue) :
                i \in 1..Len(eq.arguments)}

\* the symbols the top-level equations reference
topLevelSymbols == UNION {symbolsOfEquation(sys.equations[i]) : i \in 1..Len(sys.equations)}

\* the names of the declarations, external ones first
declaredNames ==
  [i \in 1..Len(flatten(data.variables)) |-> flatten(data.variables)[i].name]
  \o [i \in 1..Len(sys.variables) |-> sys.variables[i].name.name]

parsedSource == pc \in {"build", "newton", "done"} /\ exit # "parseError"

\* C3: when a top-level equation references a symbol that is no variable,
\* calculate throws a batch of CompileErrors with an entry naming that symbol
\* at its position, performs no Newton iteration and never calls updateProject
C3_UnknownSymbolReported ==
  (parsedSource /\ pc # "build") =>
    \A s \in topLevelSymbols :
      s.name \notin toSet(declaredNames) =>
        /\ pc = "done"
        /\ exit = "compileErrors"
        /\ result = Throws("errors")
        /\ \E k \in 1..Len(errors) :
             /\ errors[k].errorMessage = "Unknown variable"
             /\ errors[k].name = s.name
             /\ errors[k].pos = s.pos
        /\ steps = 0
        /\ n = 0
        /\ updates = <<>>

hasDuplicateDeclaration ==
  \E i, j \in 1..Len(declaredNames) : i < j /\ declaredNames[i] = declaredNames[j]

\* C4: when a name is declared more than once (in the source, in the
\* external variables, or once in each) calculate throws a 'Duplicate
\* variable' CompileError, and there is no Newton iteration and no call of
\* updateProject
C4_DuplicateVariableReported ==
  (parsedSource /\ pc # "build" /\ hasDuplicateDeclaration) =>
    /\ pc = "done"
    /\ exit = "compileErrors"
    /\ \E k \in 1..Len(errors) : errors[k].errorMessage = "Duplicate variable"
    /\ steps = 0
    /\ n = 0
    /\ updates = <<>>

\* the spans of the literals of the unknown declarations, in source order
RECURSIVE unknownSpans(_, _)
unknownSpans(variables, k) ==
  IF k > Len(variables) THEN <<>>
  ELSE LET v == variables[k]
       IN (IF v.locked THEN <<>>
           ELSE <<[start |-> v.value.realStart.pos, length |-> v.value.realLength]>>
                \o (IF v.value.hasImag
                    THEN <<[start |-> v.value.imagStart.pos,
                            length |-> v.value.imagLength]>>
                    ELSE <<>>))
          \o unknownSpans(variables, k + 1)

\* new is old with the text of every span from the k-th on replaced by some
\* text, and nothing else changed; oi and ni are the offsets reached
RECURSIVE differsOnlyInSpans(_, _, _, _, _, _)
differsOnlyInSpans(old, oi, new, ni, spans, k) ==
  IF k > Len(spans)
  THEN substring(old, oi, Len(old)) = substring(new, ni, Len(new))
  ELSE LET gap == spans[k].start - oi
       IN /\ gap >= 0
          /\ ni + gap <= Len(new)
          /\ substring(old, oi, oi + gap) = substring(new, ni, ni + gap)
          /\ \E len \in 0..(Len(new) - ni - gap) :
               differsOnlyInSpans(old, spans[k].start + spans[k].length,
                                  new, ni + gap + len, spans, k + 1)

\* C5: after a successful solve the patched source differs from the input
\* source only inside the real and imaginary literal spans of the unknown
\* declarations, and the locked external variables keep their values
C5_OnlyUnknownLiteralsRewritten ==
  exit = "solved" =>
    /\ differsOnlyInSpans(data.sourceCode, 0, updates[1].sourceCode, 0,
                          unknownSpans(sys.variables, 1), 1)
    /\ \A g \in 1..Len(data.variables) : \A i \in 1..Len(data.variables[g]) :
         data.variables[g][i].locked =>
           updates[1].variables[g][i] = data.variables[g][i]

C5_Witness ==
  /\ exit = "solved"
  /\ data.sourceCode = SrcComplex
  /\ updates[1].sourceCode # data.sourceCode

\* the source with the literal of every unknown declaration from the k-th on
\* rewritten to the text of the value its variable started with
RECURSIVE rewrittenFrom(_, _, _, _)
rewrittenFrom(src, from, variables, k) ==
  IF k > Len(variables) THEN substring(src, from, Len(src))
  ELSE LET v == variables[k]
           started == lookup(built.variables, v.name.name)
           factor == siPrefixMap(v.value.siPrefix)
       IN IF v.locked THEN rewrittenFrom(src, from, variables, k + 1)
          ELSE substring(src, from, v.value.realStart.pos)
               \o numberToString(RDiv(started.real.value, factor))
               \o (IF v.value.hasImag
                   THEN substring(src, v.value.realStart.pos + v.value.realLength,
                                  v.value.imagStart.pos)
                        \o numberToString(RDiv(started.imag.value, factor))
                        \o rewrittenFrom(src, v.value.imagStart.pos + v.value.imagLength,
                                         variables, k + 1)
                   ELSE rewrittenFrom(src, v.value.realStart.pos + v.value.realLength,
                                      variables, k + 1))

convergedAtStart == exit = "solved" /\ n = 0

\* C6 as claimed: if every residual is below the tolerance when calculate
\* starts, the loop applies no update step and the returned source text
\* equals the input source text
C6_SourceUnchanged ==
  convergedAtStart =>
    /\ steps = 0
    /\ \A i \in 1..Len(mutables) : mutables[i].value = built.mutables[i].value
    /\ updates[1].sourceCode = data.sourceCode

\* C6 as amended: if every residual is below the tolerance when calculate
\* starts, the loop applies no update step, no unknown changes its value, and
\* the returned source text is the input with the literal of every unknown
\* declaration rewritten to the text of the value its variable started with
C6_SourceRewrittenWithStartValues ==
  convergedAtStart =>
    /\ steps = 0
    /\ \A i \in 1..Len(mutables) : mutables[i].value = built.mutables[i].value
    /\ updates[1].sourceCode = rewrittenFrom(data.sourceCode, 0, sys.variables, 1)

C6_Witness ==
  /\ convergedAtStart
  /\ data.sourceCode = SrcFraction
  /\ updates[1].sourceCode # data.sourceCode

\* the squared error of the equations at the values the unknowns have now
errorNow ==
  normSquared(buildRows(equations, 1, mutables, built.derivativeCount,
                        [aRows |-> <<>>, b |-> <<>>]).b)

\* C7: updateProject is called at most once in a call of calculate and only
\* in an iteration whose error is below the tolerance; it is never called
\* after a parse error, a batch of compile errors, an exit because alpha fell
\* below its floor or an exit at the iteration cap
C7_UpdateOnlyOnConvergence ==
  /\ Len(updates) <= 1
  /\ Len(updates) = 1 => (exit = "solved" /\ belowTolerance(errorNow))
  /\ exit \in {"parseError", "compileErrors", "alphaFloor", "iterationCap"} =>
       updates = <<>>

C7_Witness ==
  /\ exit = "alphaFloor"
  /\ steps > 0
  /\ \E i \in 1..Len(mutables) : mutables[i].value # built.mutables[i].value
  /\ updates = <<>>

\* C8: when the loop ends because alpha fell below its floor or the iteration
\* cap was reached, calculate reports a convergence failure to its caller,
\* an outcome different from success and from a compile or parse error
C8_ConvergenceFailureReported ==
  exit \in {"alphaFloor", "iterationCap"} =>
    result \notin {ReturnsUndefined, Throws("CompileError"), Throws("errors")}

\* ------------------------------------------------------------------------
\* Properties of the grammar
\* ------------------------------------------------------------------------

\* zero or more positional arguments followed by zero or more named ones
positionalThenNamed(args) ==
  \A i, j \in 1..Len(args) : (i < j /\ args[i].named) => args[j].named

\* C9: call accepts an argument list exactly when it is zero or more
\* positional expressions followed by zero or more named arguments
C9_CallArgumentOrder ==
  (pc = "applied" /\ input.rule = "call" /\ input.terminated) =>
    (parsed.ok <=> positionalThenNamed(input.args))

symbolAt(name, offset) ==
  [type |-> "symbol", name |-> name,
   pos |-> [pos |-> offset, lineNr |-> 1, linePos |-> offset + 1, lineStartPos |-> 0]]

oneLine(text) == \A i \in 1..Len(text) : text[i] # "\n"

\* C10: equation on "left = right;" returns an equationTerminal of the two
\* parsed expressions in which every symbol has the offset of its first
\* character as its position, whatever blanks stand between the tokens, and
\* on a one-line input its column is that offset plus one
C10_EquationSymbolPositions ==
  (pc = "applied" /\ input.rule = "equation") =>
    /\ parsed.ok
    /\ parsed.val.type = "equationTerminal"
    /\ parsed.val.left.type = "binaryOp"
    /\ parsed.val.left.operator = input.op
    /\ parsed.val.left.left.type = "symbol"
    /\ parsed.val.left.left.name = <<"a">>
    /\ parsed.val.left.left.pos.pos = 0
    /\ parsed.val.left.right.type = "symbol"
    /\ parsed.val.left.right.name = input.second
    /\ parsed.val.left.right.pos.pos = input.offsetSecond
    /\ parsed.val.right.type = "symbol"
    /\ parsed.val.right.name = <<"c">>
    /\ parsed.val.right.pos.pos = input.offsetThird
    /\ oneLine(input.text) =>
         parsed.val = [type |-> "equationTerminal",
                       left |-> [type |-> "binaryOp", operator |-> input.op,
                                 left |-> symbolAt(<<"a">>, 0),
                                 right |-> symbolAt(input.second, input.offsetSecond)],
                       right |-> symbolAt(<<"c">>, input.offsetThird)]

C10_Witness ==
  /\ pc = "applied"
  /\ input.text = <<"a", " ", "*", "b", "=", "c", ";">>
  /\ parsed.ok
  /\ parsed.val.left.right.pos.pos = 3
  /\ parsed.val.right.pos.pos = 5

\* ------------------------------------------------------------------------
\* number, numericValue and variableDeclaration applied to generated literals
\* ------------------------------------------------------------------------

\* the variables of calculate, which the grammar functions leave alone
calculateVars == <<data, sys, built, equations, mutables, errors, alpha, n, lastError,
                   exit, result, updates, steps>>

\* the fractions of the generated literals: absent, or the digits after
\* the "." with the value they stand for
Fractions ==
  { [present |-> FALSE, text |-> <<>>, value |-> Zero],
    [present |-> TRUE, text |-> <<>>, value |-> Zero],
    [present |-> TRUE, text |-> <<"5">>, value |-> Rat(5, 10)],
    [present |-> TRUE, text |-> <<"1", "2", "3">>, value |-> Rat(123, 1000)] }

\* an optional "-", the digits of int and an optional fraction
decimalLiteral(negative, int, fraction) ==
  [negative |-> negative,
   magnitude |-> RAdd(FromInt(int), fraction.value),
   text |-> (IF negative THEN <<"-">> ELSE <<>>) \o integerDigits(int)
            \o (IF fraction.present THEN <<".">> \o fraction.text ELSE <<>>)]

DecimalLiterals ==
  {decimalLiteral(negative, int, fraction) :
     negative \in BOOLEAN, int \in {0, 1, 10}, fraction \in Fractions}

\* the number the literal stands for
literalValue(literal) ==
  IF literal.negative THEN RNeg(literal.magnitude) ELSE literal.magnitude

\* a literal followed by a gap
numberInput(literal, gap) ==
  [rule |-> "number", literal |-> literal, text |-> literal.text \o gap]

NumberInputs == {numberInput(literal, gap) : literal \in DecimalLiterals, gap \in Gaps}

\* the imaginary parts of the generated numeric values: absent, or ":" and
\* a literal with a gap before and after it
ImaginaryLiterals ==
  {decimalLiteral(TRUE, 0, [present |-> TRUE, text |-> <<"1", "2", "3">>,
                            value |-> Rat(123, 1000)]),
   decimalLiteral(FALSE, 10, [present |-> FALSE, text |-> <<>>, value |-> Zero])}

ImaginaryParts ==
  {[present |-> FALSE, literal |-> decimalLiteral(FALSE, 0, [present |-> FALSE,
                                     text |-> <<>>, value |-> Zero]),
    before |-> <<>>, text |-> <<>>]}
  \cup {[present |-> TRUE, literal |-> literal, before |-> <<":">> \o g2,
         text |-> <<":">> \o g2 \o literal.text \o g3] :
          literal \in ImaginaryLiterals, g2 \in Gaps, g3 \in {<<>>, <<" ">>}}

\* the SI prefix and the unit after the number: "", "k", "kHz", "Hz"
PrefixAndUnits == {<<>>, <<"k">>, <<"k", "H", "z">>, <<"H", "z">>, <<"m">>, <<"m", "V">>}

\* "<lead><real><g1><imaginary part><prefix and unit><end>"
numericInput(rule, lead, real, g1, imaginary, unit, end) ==
  [rule |-> rule, real |-> real, imaginary |-> imaginary, unit |-> unit,
   realStart |-> Len(lead),
   imagStart |-> Len(lead) + Len(real.text) + Len(g1) + Len(imaginary.before),
   text |-> lead \o real.text \o g1 \o imaginary.text \o unit \o end]

NumericInputs ==
  {numericInput("numericValue", <<>>, real, g1, imaginary, unit, <<>>) :
     real \in DecimalLiterals, g1 \in {<<>>, <<" ">>}, imaginary \in ImaginaryParts,
     unit \in PrefixAndUnits}

\* "var f=<numeric value>; // Frequency"
DeclarationInputs ==
  {numericInput("variableDeclaration", <<"v", "a", "r", " ", "f", "=">> \o g0,
                real, <<" ">>, imaginary, <<"k", "H", "z">>,
                <<";", " ", "/", "/", " ", "F">>) :
     g0 \in Gaps, real \in DecimalLiterals, imaginary \in ImaginaryParts}

LiteralInit ==
  /\ input \in NumberInputs \cup NumericInputs \cup DeclarationInputs
  /\ pc = "apply"
  /\ parsed = Ok(ParserInit, "undefined")
  /\ data = [sourceCode |-> <<>>, variables |-> NoVariables]
  /\ sys = EmptySystem
  /\ built = NoBuilt
  /\ equations = <<>>
  /\ mutables = <<>>
  /\ errors = <<>>
  /\ alpha = 0
  /\ n = 0
  /\ lastError = NoLastError
  /\ exit = ""
  /\ result = Running
  /\ updates = <<>>
  /\ steps = 0

\* new Grammar(text).number()
ApplyNumber ==
  /\ pc = "apply"
  /\ input.rule = "number"
  /\ parsed' = run(number, input.text, ParserInit)
  /\ pc' = "applied"
  /\ UNCHANGED <<calculateVars, input>>

\* new Grammar(text).numericValue()
ApplyNumericValue ==
  /\ pc = "apply"
  /\ input.rule = "numericValue"
  /\ parsed' = run(numericValue, input.text, ParserInit)
  /\ pc' = "applied"
  /\ UNCHANGED <<calculateVars, input>>

\* new Grammar(text).variableDeclaration()
ApplyVariableDeclaration ==
  /\ pc = "apply"
  /\ input.rule = "variableDeclaration"
  /\ parsed' = run(variableDeclaration, input.text, ParserInit)
  /\ pc' = "applied"
  /\ UNCHANGED <<calculateVars, input>>

LiteralNext == ApplyNumber \/ ApplyNumericValue \/ ApplyVariableDeclaration

LiteralSpec == LiteralInit /\ [][LiteralNext]_vars

\* C11: number returns the value of the whole signed literal it consumes,
\* negative exactly when the literal starts with "-"
C11_NumberSigned ==
  (pc = "applied" /\ input.rule = "number") =>
    /\ parsed.ok
    /\ parsed.val.value = literalValue(input.literal)

\* ------------------------------------------------------------------------
\* Properties of the literals
\* ------------------------------------------------------------------------

\* the unknown declarations of the source, by their index in sys.variables
unknownDeclarations == {i \in 1..Len(sys.variables) : ~sys.variables[i].locked}

\* the source a successful solve returned, parsed again
reparsed == parseSystem(updates[1].sourceCode)

\* the value a declaration of the parsed system gives its variable
declaredValue(declaration) ==
  [real |-> RMul(declaration.value.real, siPrefixMap(declaration.value.siPrefix)),
   imag |-> RMul(declaration.value.imag, siPrefixMap(declaration.value.siPrefix))]

\* the value the variable of a declaration has now
currentValue(declaration) ==
  [real |-> refValue(lookup(built.variables, declaration.name.name).real, mutables),
   imag |-> refValue(lookup(built.variables, declaration.name.name).imag, mutables)]

\* C12: the text a successful solve writes into the literal span of an
\* unknown declaration, parsed again and multiplied by the SI-prefix factor,
\* gives the solved value
C12_PatchedLiteralRoundTrip ==
  exit = "solved" =>
    /\ reparsed.ok
    /\ Len(reparsed.val.variables) = Len(sys.variables)
    /\ \A i \in unknownDeclarations :
         /\ declaredValue(reparsed.val.variables[i]).real
              = currentValue(sys.variables[i]).real
         /\ sys.variables[i].value.hasImag =>
              declaredValue(reparsed.val.variables[i]).imag
                = currentValue(sys.variables[i]).imag

\* the AstNumericValue a generated input was parsed to
parsedNumericValue ==
  IF input.rule = "variableDeclaration" THEN parsed.val.value ELSE parsed.val

\* C13: realStart and realLength delimit exactly the characters of the real
\* part (sign, digits, fraction) and imagStart and imagLength those of the
\* imaginary part, without the blanks around them, the ":", the SI prefix
\* and the unit
C13_LiteralSpans ==
  (pc = "applied" /\ input.rule \in {"numericValue", "variableDeclaration"}) =>
    /\ parsed.ok
    /\ parsedNumericValue.realStart.pos = input.realStart
    /\ parsedNumericValue.realLength = Len(input.real.text)
    /\ substring(input.text, parsedNumericValue.realStart.pos,
                 parsedNumericValue.realStart.pos + parsedNumericValue.realLength)
         = input.real.text
    /\ parsedNumericValue.hasImag = input.imaginary.present
    /\ input.imaginary.present =>
         /\ parsedNumericValue.imagStart.pos = input.imagStart
         /\ parsedNumericValue.imagLength = Len(input.imaginary.literal.text)
         /\ substring(input.text, parsedNumericValue.imagStart.pos,
                      parsedNumericValue.imagStart.pos + parsedNumericValue.imagLength)
              = input.imaginary.literal.text

\* "1.123:-0.123" gives the real span (0, 5) and the imaginary span (6, 6)
C13_Witness ==
  /\ pc = "applied"
  /\ input.rule = "numericValue"
  /\ input.text = <<"1", ".", "1", "2", "3", ":", "-", "0", ".", "1", "2", "3">>
  /\ parsed.ok
  /\ parsed.val.realStart.pos = 0
  /\ parsed.val.realLength = 5
  /\ parsed.val.imagStart.pos = 6
  /\ parsed.val.imagLength = 6

\* ------------------------------------------------------------------------
\* The combinators of Parser applied to generated functions and texts
\* ------------------------------------------------------------------------

\* the longest generated text
MaxInputLength == 3

ScannerTexts == UNION {[1..len -> {"a", "b", "\n"}] : len \in 0..MaxInputLength}

\* the functions handed to the combinators; each consumes before it throws
Attempts ==
  { Consume(Pred({"a"})),
    Do(<<Consume(Pred({"a"})), Consume(Pred({"\n"})), Consume(Pred({"b"}))>>),
    ConsumeString(<<"a", "b">>),
    Do(<<Consume(Pred({"b"})), Consume(Pred({"a"}))>>),
    Do(<<ConsumeZeroOrMore(NoPredicate), Consume(Pred({"a"}))>>) }

\* one or two choices, and a choice of two as the first of two choices
ChoiceLists ==
  {<<f>> : f \in Attempts}
  \cup {<<f, g>> : f \in Attempts, g \in Attempts}
  \cup {<<Choice(<<f, g>>), h>> : f \in Attempts, g \in Attempts, h \in Attempts}

\* the parser after count calls of consume()
RECURSIVE consumed(_, _, _)
consumed(inp, st, count) ==
  IF count = 0 \/ isEOI(inp, st) THEN st
  ELSE consumed(inp, advance(inp, st), count - 1)

\* the parser when the combinator is entered
entry == consumed(input.text, ParserInit, input.entered)

CombinatorInputs ==
  {[rule |-> "choice", text |-> text, entered |-> entered, choices |-> choices] :
     text \in ScannerTexts, entered \in 0..1, choices \in ChoiceLists}
  \cup {[rule |-> rule, text |-> text, entered |-> entered, f |-> f] :
          rule \in {"optional", "zeroOrMore"}, text \in ScannerTexts,
          entered \in 0..1, f \in Attempts}
  \cup {[rule |-> "reset", text |-> text, entered |-> entered, count |-> count] :
          text \in ScannerTexts, entered \in 0..1, count \in 0..MaxInputLength}

CombinatorInit ==
  /\ input \in CombinatorInputs
  /\ pc = "apply"
  /\ parsed = Ok(ParserInit, "undefined")
  /\ data = [sourceCode |-> <<>>, variables |-> NoVariables]
  /\ sys = EmptySystem
  /\ built = NoBuilt
  /\ equations = <<>>
  /\ mutables = <<>>
  /\ errors = <<>>
  /\ alpha = 0
  /\ n = 0
  /\ lastError = NoLastError
  /\ exit = ""
  /\ result = Running
  /\ updates = <<>>
  /\ steps = 0

\* parser.choice(...choices)
ApplyChoice ==
  /\ pc = "apply"
  /\ input.rule = "choice"
  /\ parsed' = run(Choice(input.choices), input.text, entry)
  /\ pc' = "applied"
  /\ UNCHANGED <<calculateVars, input>>

\* parser.optional(f)
ApplyOptional ==
  /\ pc = "apply"
  /\ input.rule = "optional"
  /\ parsed' = run(Optional(input.f), input.text, entry)
  /\ pc' = "applied"
  /\ UNCHANGED <<calculateVars, input>>

\* parser.zeroOrMore(f)
ApplyZeroOrMore ==
  /\ pc = "apply"
  /\ input.rule = "zeroOrMore"
  /\ parsed' = run(ZeroOrMore(input.f), input.text, entry)
  /\ pc' = "applied"
  /\ UNCHANGED <<calculateVars, input>>

\* const mark = this.mark(); count calls of consume(); this.reset(mark);
\* the value is the pos read when the mark was taken
ApplyMarkReset ==
  /\ pc = "apply"
  /\ input.rule = "reset"
  /\ parsed' = Ok(reset(consumed(input.text, entry, input.count), mark(entry)),
                  pos(entry))
  /\ pc' = "applied"
  /\ UNCHANGED <<calculateVars, input>>

CombinatorNext == ApplyChoice \/ ApplyOptional \/ ApplyZeroOrMore \/ ApplyMarkReset

CombinatorSpec == CombinatorInit /\ [][CombinatorNext]_vars

\* the functions a list of choices tries, those of a nested choice in its place
RECURSIVE alternatives(_, _)
alternatives(choices, i) ==
  IF i > Len(choices) THEN <<>>
  ELSE (IF choices[i].type = "choice" THEN alternatives(choices[i].choices, 1)
        ELSE <<choices[i]>>)
       \o alternatives(choices, i + 1)

\* how each alternative ends when it is called where the choice was entered
alternativeResults ==
  [i \in 1..Len(alternatives(input.choices, 1)) |->
     run(alternatives(input.choices, 1)[i], input.text, entry)]

\* the earliest of the alternatives that failed furthest into the input
furthestAlternative ==
  CHOOSE j \in DOMAIN alternativeResults :
    \A k \in DOMAIN alternativeResults :
      /\ alternativeResults[k].err.pos.pos <= alternativeResults[j].err.pos.pos
      /\ k < j => alternativeResults[k].err.pos.pos < alternativeResults[j].err.pos.pos

\* what an error says and the place it names
errorShown(err) ==
  [errorMessage |-> err.errorMessage, pos |-> err.pos.pos,
   lineNr |-> err.pos.lineNr, linePos |-> err.pos.linePos]

allAlternativesFail == \A i \in DOMAIN alternativeResults : ~alternativeResults[i].ok

\* C14: when every alternative of a choice fails, the error thrown is that
\* of the alternative that failed at the greatest offset, the earliest one
\* among equal offsets, the alternatives of a nested choice counted as
\* alternatives in its place
C14_FurthestErrorThrown ==
  (pc = "applied" /\ input.rule = "choice" /\ allAlternativesFail) =>
    /\ ~parsed.ok
    /\ errorShown(parsed.err) = errorShown(alternativeResults[furthestAlternative].err)

\* on "b" the nested choice of "ab" (fails at 0) and b then a (fails at the
\* end, 1) is followed by a (fails at 1): the error of the second is thrown
C14_Witness ==
  /\ pc = "applied"
  /\ input.rule = "choice"
  /\ input.text = <<"b">>
  /\ input.entered = 0
  /\ input.choices = <<Choice(<<ConsumeString(<<"a", "b">>),
                               Do(<<Consume(Pred({"b"})), Consume(Pred({"a"}))>>)>>),
                       Consume(Pred({"a"}))>>
  /\ ~parsed.ok
  /\ parsed.err.errorMessage = "End of input reached"
  /\ parsed.err.pos.pos = 1

\* the first alternative that succeeds where the choice was entered
firstSuccess ==
  CHOOSE i \in DOMAIN alternativeResults :
    /\ alternativeResults[i].ok
    /\ \A k \in 1..(i - 1) : ~alternativeResults[k].ok

\* the parser after the rounds of zeroOrMore(f), each round starting where
\* the round before it ended
RECURSIVE afterRounds(_, _, _)
afterRounds(f, inp, st) ==
  IF run(f, inp, st).ok THEN afterRounds(f, inp, run(f, inp, st).st) ELSE st

C16_ResetRestoresPosition ==
  (pc = "applied" /\ input.rule = "reset") => pos(parsed.st) = parsed.val

\* ------------------------------------------------------------------------
\* Properties of the Newton loop
\* ------------------------------------------------------------------------

\* calculate is one synchronous call: when its loop is at a round, the round
\* is run
FairSpec == Spec /\ WF_vars(Iterate)

\* C17: the Newton loop ends in every run, and a round that does not meet
\* the tolerance is the last one, without a call of updateProject, as soon
\* as alpha is below 0.1 or the iteration counter is above 100
C17_NewtonLoopTerminates ==
  /\ (pc = "newton") ~> (pc = "done")
  /\ [][pc = "newton" =>
          /\ pc' = "newton" => (~alphaBelowFloor(alpha') /\ n <= IterationCap)
          /\ exit' \in {"alphaFloor", "iterationCap"} => updates' = updates]_vars

\* the loop gave up in the round in which the counter was above 100
C17_Witness ==
  /\ pc = "done"
  /\ exit = "iterationCap"
  /\ n = IterationCap + 1
  /\ steps = IterationCap + 2
  /\ updates = <<>>

\* the squared error of the current round is more than 0.99^2 times the
\* squared error the round before recorded
errorAboveDampingThreshold ==
  /\ lastError.defined
  /\ RLt(RMul(lastError.e2, <<9801, 10000>>), errorNow)

\* the squared error of the current round is 0.99^2 times the squared error
\* the round before recorded, or more
errorAtOrAboveDampingThreshold ==
  \/ errorAboveDampingThreshold
  \/ /\ lastError.defined
     /\ IsNum(errorNow)
     /\ RMul(lastError.e2, <<9801, 10000>>) = errorNow

\* C18 as stated: alpha starts at 1, and a round that performs the step
\* multiplies alpha by 0.9 exactly when an error of a round before exists and
\* the error of this round is not smaller than 0.99 times it, equality
\* included; nothing else changes alpha
C18_DampingOnErrorNotSmaller ==
  /\ pc = "parse" => alpha = 0
  /\ [][/\ steps' = steps + 1 =>
             alpha' = IF errorAtOrAboveDampingThreshold THEN alpha + 1 ELSE alpha
        /\ steps' = steps => alpha' = alpha]_vars

\* C18, amended: alpha starts at 1, and a round that performs the step
\* multiplies alpha by 0.9 exactly when an error of a round before exists and
\* the error of this round is greater than 0.99 times it; on equality, in the
\* first round and in every other step alpha is unchanged, so it never grows
C18_DampingOnErrorGreater ==
  /\ pc = "parse" => alpha = 0
  /\ [][/\ steps' = steps + 1 =>
             alpha' = IF errorAboveDampingThreshold THEN alpha + 1 ELSE alpha
        /\ steps' = steps => alpha' = alpha
        /\ ~lastError.defined => alpha' = alpha
        /\ alpha' >= alpha]_vars

\* the second round of SrcDampingEquality: its error, 99, is exactly 0.99
\* times the error of the first round, 100; the step was performed and alpha
\* is still 1
C18_Witness ==
  /\ data.sourceCode = SrcDampingEquality
  /\ pc = "newton"
  /\ steps = 2
  /\ lastError = [defined |-> TRUE, e2 |-> <<9801, 1>>]
  /\ alpha = 0

\* ------------------------------------------------------------------------
\* Properties of buildVariables
\* ------------------------------------------------------------------------

\* the declarations calculate was given, external variables first, then the
\* declarations of the source
declaredVariables ==
  [i \in 1..Len(flatten(data.variables)) |->
     [name |-> flatten(data.variables)[i].name,
      locked |-> flatten(data.variables)[i].locked]]
  \o [i \in 1..Len(sys.variables) |->
        [name |-> sys.variables[i].name.name, locked |-> sys.variables[i].locked]]

\* the declaration that gives the name its variable: the last one of the name
declarationOf(name) ==
  CHOOSE i \in 1..Len(declaredVariables) :
    /\ declaredVariables[i].name = name
    /\ \A j \in (i + 1)..Len(declaredVariables) : declaredVariables[j].name # name

\* k: the unknowns declared before declaration i
unknownsBefore(i) == Cardinality({j \in 1..(i - 1) : ~declaredVariables[j].locked})

\* the derivatives of the two DualReal objects of a variable
realDerivatives(name) ==
  refDual(lookup(built.variables, name).real, built.mutables,
          built.derivativeCount).derivatives

imagDerivatives(name) ==
  refDual(lookup(built.variables, name).imag, built.mutables,
          built.derivativeCount).derivatives

\* the vector of the length of the solve that is 1 at the slot and 0 elsewhere;
\* slots count from 0
oneAtSlot(slot) ==
  [e \in 1..built.derivativeCount |-> IF e = slot + 1 THEN One ELSE Zero]

RECURSIVE inlinedSymbol(_, _, _)
inlinedSymbol(exp, env, k) ==
  IF k = 0 THEN exp
  ELSE IF hasKey(env[k], exp.name)
  THEN [type |-> "paren", expression |-> lookup(env[k], exp.name)]
  ELSE inlinedSymbol(exp, env, k - 1)

\* an expression with every parameter replaced by its argument expression
RECURSIVE inlinedExpression(_, _)
inlinedExpression(exp, env) ==
  IF exp.type = "number" THEN exp
  ELSE IF exp.type = "symbol" THEN inlinedSymbol(exp, env, Len(env))
  ELSE IF exp.type = "paren"
  THEN [type |-> "paren", expression |-> inlinedExpression(exp.expression, env)]
  ELSE [type |-> "binaryOp", operator |-> exp.operator,
        left |-> inlinedExpression(exp.left, env),
        right |-> inlinedExpression(exp.right, env)]

\* the arguments of a call as expressions over the variables
inlinedArguments(eq, env) ==
  [i \in 1..Len(eq.arguments) |->
     [name |-> eq.arguments[i].parameterName.name,
      value |-> inlinedExpression(eq.arguments[i].argumentValue, env)]]

\* the equations without calls: every call replaced by the equations of its
\* definition, the parameters replaced by the argument expressions
RECURSIVE inlinedEquations(_, _, _, _)
inlinedEquations(eqs, k, env, definitions) ==
  IF k > Len(eqs) THEN <<>>
  ELSE (IF eqs[k].type = "equationTerminal"
        THEN <<[type |-> "equationTerminal",
                left |-> inlinedExpression(eqs[k].left, env),
                right |-> inlinedExpression(eqs[k].right, env)]>>
        ELSE inlinedEquations(lookup(definitions, eqs[k].name.name).equations, 1,
                              Append(env, inlinedArguments(eqs[k], env)), definitions))
       \o inlinedEquations(eqs, k + 1, env, definitions)

\* the closures of the inlined equations
inlinedClosures ==
  pushEquations(inlinedEquations(sys.equations, 1, <<>>, definitionsOf(sys)), 1, <<>>,
                sys, built, [equations |-> <<>>, errors |-> <<>>, thrown |-> ""],
                0).equations

\* the negated residuals of a list of closures at the values the unknowns
\* have now
residualsNow(closures) ==
  buildRows(closures, 1, mutables, built.derivativeCount, [aRows |-> <<>>, b |-> <<>>]).b

\* C20: in every round of the Newton loop the residuals of the collected
\* equations are those of the equations with every call inlined, the
\* parameters replaced by the argument expressions, at the values the
\* unknowns have in that round
C20_CallExpansionIsInlining ==
  pc = "newton" => residualsNow(equations) = residualsNow(inlinedClosures)

\* the Jacobian rows and the negated residuals of a list of closures at the
\* values the unknowns have now
rowsNow(closures) ==
  buildRows(closures, 1, mutables, built.derivativeCount, [aRows |-> <<>>, b |-> <<>>])

boundNames(eq) == [i \in 1..Len(eq.arguments) |-> eq.arguments[i].parameterName.name]

\* the call binds every parameter of the definition once and nothing else
bindsExactly(eq, def) ==
  /\ toSet(boundNames(eq)) = toSet(def.parameters)
  /\ \A i, j \in 1..Len(eq.arguments) : boundNames(eq)[i] = boundNames(eq)[j] => i = j

\* the top-level calls of defined definitions
topLevelCalls ==
  {i \in 1..Len(sys.equations) :
     /\ sys.equations[i].type = "call"
     /\ hasKey(definitionsOf(sys), sys.equations[i].name.name)}

\* C22: a call that leaves a parameter of its definition out, binds a name
\* that is no parameter, or binds a parameter twice ends calculate with an
\* error: nothing is collected from the call and the loop is not entered
C22_ExactArgumentBinding ==
  (parsedSource /\ pc # "build") =>
    \A i \in topLevelCalls :
      ~bindsExactly(sys.equations[i],
                    lookup(definitionsOf(sys), sys.equations[i].name.name)) =>
        /\ pc = "done"
        /\ result.kind = "throw"
        /\ equations = <<>>
        /\ steps = 0
        /\ updates = <<>>

\* the top-level calls of names that are no definition
undefinedCalls ==
  {i \in 1..Len(sys.equations) :
     /\ sys.equations[i].type = "call"
     /\ ~hasKey(definitionsOf(sys), sys.equations[i].name.name)}

\* C23: a call of a name that is no definition is recorded as a CompileError
\* at the position of the name, in the batch calculate throws; the equations
\* after the call are still evaluated, so an unknown symbol of a top-level
\* equation is in the batch too; the loop does not run
C23_UnknownDefinitionInBatch ==
  (parsedSource /\ pc # "build" /\ undefinedCalls # {}) =>
    /\ pc = "done"
    /\ exit = "compileErrors"
    /\ result = Throws("errors")
    /\ steps = 0
    /\ updates = <<>>
    /\ \A i \in undefinedCalls :
         \E k \in 1..Len(errors) :
           /\ errors[k].errorMessage = "Unknown definition"
           /\ errors[k].name = sys.equations[i].name.name
           /\ errors[k].pos = sys.equations[i].name.pos
    /\ \A s \in topLevelSymbols :
         s.name \notin toSet(declaredNames) =>
           \E k \in 1..Len(errors) :
             /\ errors[k].errorMessage = "Unknown variable"
             /\ errors[k].name = s.name
             /\ errors[k].pos = s.pos

\* ------------------------------------------------------------------------
\* Properties of the source patch
\* ------------------------------------------------------------------------

\* the text written for a part of the variable of the declaration v
solvedText(v, part) ==
  numberToString(RDiv(refValue(part, mutables), siPrefixMap(v.value.siPrefix)))

\* the original source from the offset from on, with the literal spans of
\* the unknown declarations from the k-th on replaced, each at the offset the
\* parser recorded for it, by the text of the solved value
RECURSIVE patchedFrom(_, _, _, _)
patchedFrom(src, from, variables, k) ==
  IF k > Len(variables) THEN substring(src, from, Len(src))
  ELSE IF variables[k].locked THEN patchedFrom(src, from, variables, k + 1)
  ELSE substring(src, from, variables[k].value.realStart.pos)
       \o solvedText(variables[k], lookup(built.variables, variables[k].name.name).real)
       \o (IF variables[k].value.hasImag
           THEN substring(src,
                          variables[k].value.realStart.pos + variables[k].value.realLength,
                          variables[k].value.imagStart.pos)
                \o solvedText(variables[k],
                              lookup(built.variables, variables[k].name.name).imag)
                \o patchedFrom(src,
                               variables[k].value.imagStart.pos
                                 + variables[k].value.imagLength,
                               variables, k + 1)
           ELSE patchedFrom(src,
                            variables[k].value.realStart.pos
                              + variables[k].value.realLength,
                            variables, k + 1))

\* C24: the patched source is the original with the real span, and the
\* imaginary span where the literal has one, of every unknown declaration
\* replaced at its recorded offset by the text of the solved value, whatever
\* the lengths of the texts
C24_PatchAtRecordedOffsets ==
  exit = "solved" =>
    updates[1].sourceCode = patchedFrom(data.sourceCode, 0, sys.variables, 1)

\* "var a=1:10; var b=10; a+a=25:3; b=3;" becomes
\* "var a=12.5:1.5; var b=3; a+a=25:3; b=3;": the first literal grows by
\* three characters and by one, the second shrinks
C24_Witness ==
  /\ exit = "solved"
  /\ data.sourceCode = SrcLengthChanging
  /\ substring(updates[1].sourceCode, 0, 24)
       = <<"v", "a", "r", " ", "a", "=", "1", "2", ".", "5", ":", "1", ".", "5",
           ";", " ", "v", "a", "r", " ", "b", "=", "3", ";">>
  /\ Len(updates[1].sourceCode) = Len(data.sourceCode) + 3

\* ------------------------------------------------------------------------
\* Grammar.expression on expressions of three operands
\* ------------------------------------------------------------------------

\* the operands: a symbol or a number, with the node expected for each
Operands ==
  { [text |-> <<"a">>, node |-> <<"symbol", <<"a">> >>],
    [text |-> <<"b", "2">>, node |-> <<"symbol", <<"b", "2">> >>],
    [text |-> <<"7">>, node |-> <<"number", FromInt(7)>>] }

ExpressionShapes == {"flat", "parenLeft", "parenRight"}

\* "<x> <op1> <y> <op2> <z>", "(<x> <op1> <y>) <op2> <z>" or
\* "<x> <op1> (<y> <op2> <z>)", with the gap g after every token
expressionInput(shape, x, op1, y, op2, z, g) ==
  [rule |-> "expression", shape |-> shape, x |-> x.node, op1 |-> op1, y |-> y.node,
   op2 |-> op2, z |-> z.node,
   text |-> (IF shape = "parenLeft" THEN <<"(">> \o g ELSE <<>>)
            \o x.text \o g \o <<op1>> \o g
            \o (IF shape = "parenRight" THEN <<"(">> \o g ELSE <<>>)
            \o y.text \o g
            \o (IF shape = "parenLeft" THEN <<")">> \o g ELSE <<>>)
            \o <<op2>> \o g \o z.text \o g
            \o (IF shape = "parenRight" THEN <<")">> \o g ELSE <<>>)]

ExpressionInputs ==
  {expressionInput(shape, x, op1, y, op2, z, g) :
     shape \in ExpressionShapes, x \in Operands, op1 \in {"+", "-", "*", "/"},
     y \in {o \in Operands : o.text = <<"b", "2">>}, op2 \in {"+", "-", "*", "/"},
     z \in Operands, g \in Gaps}

ExpressionInit ==
  /\ input \in ExpressionInputs
  /\ pc = "apply"
  /\ parsed = Ok(ParserInit, "undefined")
  /\ data = [sourceCode |-> <<>>, variables |-> NoVariables]
  /\ sys = EmptySystem
  /\ built = NoBuilt
  /\ equations = <<>>
  /\ mutables = <<>>
  /\ errors = <<>>
  /\ alpha = 0
  /\ n = 0
  /\ lastError = NoLastError
  /\ exit = ""
  /\ result = Running
  /\ updates = <<>>
  /\ steps = 0

\* new Grammar(text).expression()
ApplyExpression ==
  /\ pc = "apply"
  /\ input.rule = "expression"
  /\ parsed' = run(expression, input.text, ParserInit)
  /\ pc' = "applied"
  /\ UNCHANGED <<calculateVars, input>>

ExpressionNext == ApplyExpression

ExpressionSpec == ExpressionInit /\ [][ExpressionNext]_vars

\* an expression without its positions and without the parts of its numbers
\* other than the real value
RECURSIVE skeleton(_)
skeleton(exp) ==
  IF exp.type = "symbol" THEN <<"symbol", exp.name>>
  ELSE IF exp.type = "number" THEN <<"number", exp.value.real>>
  ELSE IF exp.type = "paren" THEN <<"paren", skeleton(exp.expression)>>
  ELSE <<"binaryOp", exp.operator, skeleton(exp.left), skeleton(exp.right)>>

bindsTighter(op) == op \in {"*", "/"}

\* the tree of the input by the rules of arithmetic: an operation of the
\* higher precedence first, otherwise the left one first; parentheses first
expectedSkeleton ==
  IF input.shape = "parenLeft"
  THEN <<"binaryOp", input.op2,
         <<"paren", <<"binaryOp", input.op1, input.x, input.y>> >>, input.z>>
  ELSE IF input.shape = "parenRight"
  THEN <<"binaryOp", input.op1, input.x,
         <<"paren", <<"binaryOp", input.op2, input.y, input.z>> >> >>
  ELSE IF bindsTighter(input.op2) /\ ~bindsTighter(input.op1)
  THEN <<"binaryOp", input.op1, input.x, <<"binaryOp", input.op2, input.y, input.z>> >>
  ELSE <<"binaryOp", input.op2, <<"binaryOp", input.op1, input.x, input.y>>, input.z>>

\* C25: expression() reads the whole text and gives the tree in which * and /
\* bind tighter than + and -, operations of equal precedence group from the
\* left, and a parenthesised expression is a paren node that is an operand
C25_PrecedenceAndAssociativity ==
  (pc = "applied" /\ input.rule = "expression") =>
    /\ parsed.ok
    /\ parsed.st.inputPos = Len(input.text)
    /\ skeleton(parsed.val) = expectedSkeleton

\* "a-b2-7" is (a-b2)-7
C25_Witness ==
  /\ pc = "applied"
  /\ input.text = <<"a", "-", "b", "2", "-", "7">>
  /\ parsed.ok
  /\ parsed.val.type = "binaryOp"
  /\ parsed.val.left.type = "binaryOp"
  /\ parsed.val.left.operator = "-"
  /\ parsed.val.right.type = "number"

\* C26: a numeric literal followed by the single character m and nothing
\* else has the empty SI prefix; followed by m and a unit it has the
\* prefix m
C26_BareMIsMetres ==
  (pc = "applied" /\ input.rule = "numericValue" /\ parsed.ok) =>
    /\ input.unit = <<"m">> => parsed.val.siPrefix = ""
    /\ input.unit = <<"m", "V">> => parsed.val.siPrefix = "m"

\* ------------------------------------------------------------------------
\* The source positions kept in the AstSystem
\* ------------------------------------------------------------------------

positionsOfNumericValue(v) ==
  {v.realStart} \cup (IF v.hasImag THEN {v.imagStart} ELSE {})

RECURSIVE positionsOfExpression(_)
positionsOfExpression(e) ==
  IF e.type = "symbol" THEN {e.pos}
  ELSE IF e.type = "number" THEN positionsOfNumericValue(e.value)
  ELSE IF e.type = "paren" THEN positionsOfExpression(e.expression)
  ELSE positionsOfExpression(e.left) \cup positionsOfExpression(e.right)

positionsOfEquation(eq) ==
  IF eq.type = "equationTerminal"
  THEN positionsOfExpression(eq.left) \cup positionsOfExpression(eq.right)
  ELSE {eq.name.pos}
       \cup UNION {{eq.arguments[i].parameterName.pos}
                   \cup positionsOfExpression(eq.arguments[i].argumentValue) :
                     i \in 1..Len(eq.arguments)}

positionsOfSystem ==
  UNION {positionsOfEquation(sys.equations[i]) : i \in 1..Len(sys.equations)}
  \cup UNION {UNION {positionsOfEquation(sys.definitions[d].equations[i]) :
                       i \in 1..Len(sys.definitions[d].equations)} :
                d \in 1..Len(sys.definitions)}
  \cup UNION {{sys.variables[i].name.pos} \cup positionsOfNumericValue(sys.variables[i].value) :
                i \in 1..Len(sys.variables)}

\* line start, column and line number of p are those of its offset in src
selfConsistent(p, src) ==
  /\ p.lineStartPos <= p.pos
  /\ p.linePos = p.pos - p.lineStartPos + 1
  /\ p.lineNr = 1 + Cardinality({i \in 1..p.pos : src[i] = "\n"})

\* C27: every position kept in a node of a parsed system has the line start,
\* the column and the line number of its offset
C27_PositionsSelfConsistent ==
  parsedSource => \A p \in positionsOfSystem : selfConsistent(p, data.sourceCode)

\* C28: the expansion of the calls of a parsed system comes to an end by
\* itself, with the residuals or with one of the errors of pushEquation; it
\* never runs until the call stack is exhausted
C28_ExpansionTerminates ==
  (parsedSource /\ pc # "build") => result # Throws("RangeError")

\* ------------------------------------------------------------------------
\* The step of the Newton loop
\* ------------------------------------------------------------------------

\* d of the round that starts in this state
solvedStep ==
  LET rows == buildRows(equations, 1, mutables, built.derivativeCount,
                        [aRows |-> <<>>, b |-> <<>>])
  IN solve(rows.aRows, rows.b, built.derivativeCount)

\* the values of the locked variables
lockedValues ==
  {<<built.variables[i].name, built.variables[i].value.real.value,
     built.variables[i].value.imag.value>> :
     i \in {i \in 1..Len(built.variables) : ~built.variables[i].value.real.mutable}}

\* C29: the i-th mutable is the dual that is one-hot at index i of the
\* derivative vectors (slot i - 1), a round that performs the step adds
\* alpha times component i of the solved step to it and to nothing else,
\* and no round changes a locked variable, a collected closure or the
\* number of the mutables
C29_StepAlignment ==
  [][Iterate =>
       /\ Len(mutables) = built.derivativeCount
       /\ \A i \in 1..Len(mutables) : mutables[i].slot = i - 1
       /\ \A i \in 1..Len(built.variables) :
            built.variables[i].value.real.mutable =>
              /\ built.variables[i].value.real.slot = built.variables[i].value.real.index - 1
              /\ built.variables[i].value.imag.slot = built.variables[i].value.imag.index - 1
       /\ Len(mutables') = Len(mutables)
       /\ steps' = steps + 1 =>
            \A i \in 1..Len(mutables) :
              /\ mutables'[i].slot = mutables[i].slot
              /\ mutables'[i].value
                   = RAdd(mutables[i].value, alphaTimes(alpha, solvedStep.x[i]))
       /\ steps' = steps => mutables' = mutables
       /\ lockedValues' = lockedValues
       /\ equations' = equations]_vars

\* after the first round of SrcShadowing a and d are 4, c is 3 and the
\* locked b is still 2
C29_Witness ==
  /\ data.sourceCode = SrcShadowing
  /\ steps = 1
  /\ Len(mutables) = 6
  /\ mutables[1].value = FromInt(4)
  /\ mutables[3].value = FromInt(3)
  /\ mutables[5].value = FromInt(4)
  /\ <<NameB, FromInt(2), Zero>> \in lockedValues

\* the external variables that are unknowns, as <<group, index>>
externalUnknowns ==
  {<<g, i>> \in (1..Len(data.variables)) \X (1..2) :
     i <= Len(data.variables[g]) /\ ~data.variables[g][i].locked}

\* C30: when the system is met at the values the external unknowns come
\* with, the solve returns each of them with its value unchanged, and that
\* value times the factor of its SI prefix is the solved value
C30_ExternalPrefixRoundTrip ==
  (exit = "solved" /\ steps = 0) =>
    \A u \in externalUnknowns :
      /\ updates[1].variables[u[1]][u[2]].value = data.variables[u[1]][u[2]].value
      /\ RMul(updates[1].variables[u[1]][u[2]].value,
              siPrefixMap(data.variables[u[1]][u[2]].siPrefix))
           = refValue(lookup(built.variables, data.variables[u[1]][u[2]].name).real, mutables)

====
